---- MODULE Spec2Model ----
(***************************************************************************)
(* Model of the DataStorage record store (mrognor/DataStorage).            *)
(*                                                                         *)
(* The sources hold two generations of the store.                          *)
(*                                                                         *)
(* "prototype": src/DataStorage.cpp, a complete program.  Its DataStorage  *)
(* (AddParam, CreateNewRecord, GetRecord, ~DataStorage) keeps ONE table    *)
(* per field, a unique-key std::unordered_map<T, DataHashMap*>, in ONE     *)
(* structure (KeysMaps); its records are plain DataHashMap objects and its *)
(* reference class is DataStorageRecord (SetData, GetData,                 *)
(* SetDataHashMapPtr, SetParamMapsPtr).                                    *)
(*                                                                         *)
(* "library": src/unnamed/part_000 (DataStorageRecord.h), the reference    *)
(* class DataStorageRecordRef, whose SetData moves one entry in each of    *)
(* two tables per field, a std::unordered_multimap<T, DataStorageRecord*>  *)
(* and a std::multimap<T, DataStorageRecord*>.  The storage class that     *)
(* builds these two structures is not among the sources; its operations    *)
(* (declareField, createRecord, findByField, teardown) are modelled from   *)
(* the specification, as are the validity flag, IsValid, Unlink and the   *)
(* shared/exclusive lock.                                                  *)
(*                                                                         *)
(* The type-erased cell (DataSaver) is taken from src/DataStorage.cpp and  *)
(* the keyed container from src/DataContainer.h and src/DataStorage.cpp.   *)
(*                                                                         *)
(* Spec is a storage of either generation used from one thread             *)
(* (generation is fixed by Init), SpecLocked the library storage used by   *)
(* several threads under the shared/exclusive lock, SpecDestroy the        *)
(* library storage destroyed by its owner while a thread calls through a   *)
(* ref, SpecCells the operations of free-standing DataSaver cells and      *)
(* SpecContainers those of a free-standing DataHashMap and                 *)
(* DataMultiHashMap.                                                       *)
(***************************************************************************)
EXTENDS Naturals, Integers, FiniteSets, Sequences, TLC

\* ------------------------------------------------------------------ bounds
MaxRecords == 2
MaxVal == 2
NumRefs == 2

\* ------------------------------------------------------------- value space
Keys == {"id", "name"}
Types == {"int", "str"}
Vals == 1..MaxVal
\* the values of type std::string are the empty string "" and the non-empty
\* strings; value EmptyString of type "str" stands for "", every other value
\* of Vals for a non-empty string
EmptyString == 1
\* a typed argument of a template call: the template type T and the value
TypedVals == [t : Types, v : Vals]
RecIds == 1..MaxRecords
RefIds == 1..NumRefs
\* the DataStorageRecord objects of a client of the prototype (main has one, dse)
NumDsr == 1
DsrIds == 1..NumDsr
\* the template type a caller declares each key with (main: "id" int, "name" string)
DeclType(k) == IF k = "id" THEN "int" ELSE "str"
DeclVals(k) == {d \in TypedVals : d.t = DeclType(k)}
\* the threads of the concurrent specification
NumThreads == 2
Threads == 1..NumThreads
IdleThread == [pc |-> "idle", s |-> 0, key |-> "-", v |-> 0, old |-> 0]
\* table handles: every AddParam call allocates one table, every declareField
\* call one pair of tables
MaxTables == 2
Handles == 1..MaxTables

NullPtr == 0
NoType == <<>>
NoFunc == "nullptr"
DeleteTable == "delete_table"
\* the release callback a caller attaches to a cell that holds an owned pointer
DeleteRes == "delete_resource"

\* free-standing cells, the owned resources their callbacks release, and the
\* entries one key of the multi-key container may hold
NumCells == 2
CellIds == 1..NumCells
MaxRes == 2
Resources == 1..MaxRes
MaxMulti == 2

ValTag(t) == <<"val", t>>
\* typeid of the pointer type a cell with a release callback holds
PtrTag == ValTag("ptr")
CellTags == {ValTag(t) : t \in Types} \cup {PtrTag}
HashTag(t) == <<"unordered_multimap", t>>
MapTag(t) == <<"multimap", t>>
\* typeid of std::unordered_map<T, DataHashMap*>*, the pointer a KeysMaps cell holds
KeyTag(t) == <<"unordered_map", t>>
\* the address of the KeysMaps member of the storage
ThisKeysMaps == 1
Generations == {"prototype", "library"}

VARIABLES
    generation,                  \* which DataStorage class the program builds
    KeysMaps,                    \* DataHashMap: key -> DataSaver holding a table pointer
    keyHeap,                     \* handle -> unordered_map<T, DataHashMap*> (value -> record)
    dsr,                         \* DataStorageRecord objects of the client: [Data, KeysMaps]
    RecordTemplate,              \* DataHashMap: key -> DataSaver (schema)
    DataStorageHashMapStructure, \* DataHashMap: key -> DataSaver holding a table pointer
    DataStorageMapStructure,     \* DataHashMap: key -> DataSaver holding a table pointer
    DataStorageRecordFillers,    \* key -> closure [pointer, def] / [hash, map, def]
    hashHeap,                    \* handle -> unordered_multimap<T, DataStorageRecord*> (bag of <<v, rec>>)
    mapHeap,                     \* handle -> multimap<T, DataStorageRecord*> (bag of <<v, rec>>)
    nTables,                     \* number of tables (table pairs) allocated so far
    RecordsList,                 \* sequence of the records the storage owns
    recHeap,                     \* record id -> [alloc, Container]
    validFlag,                   \* record id -> the shared IsDataStorageRecordValid boolean
    refs,                        \* ref slot -> [DataRecord] (0 = nullptr)
    phase,                       \* "live" | "tearing" | "dead": storage life cycle
    fault,                       \* "none" or the undefined behaviour the last call ran into
    res,                         \* the last call: operation, return value, output
    lock,                        \* the shared/exclusive lock: [writer, readers]
    thr,                         \* thread -> where the thread is in its locked call
    cell,                        \* cell id -> DataSaver (free-standing cells)
    uniq,                        \* a DataHashMap: key -> DataSaver
    multi,                       \* a DataMultiHashMap: key -> sequence of DataSaver
    invoked,                     \* resource -> number of release-callback calls on it
    nextRes                      \* number of resources allocated so far

vars == <<generation, KeysMaps, keyHeap, dsr,
          RecordTemplate, DataStorageHashMapStructure, DataStorageMapStructure,
          DataStorageRecordFillers, hashHeap, mapHeap, nTables, RecordsList,
          recHeap, validFlag, refs, phase, fault, res, lock, thr,
          cell, uniq, multi, invoked, nextRes>>

\* the free-standing cells and containers: untouched by every storage call
cellVars == <<cell, uniq, multi, invoked, nextRes>>

\* the state only the prototype storage has, and the state only the library has
proto == <<KeysMaps, keyHeap, dsr>>
library == <<DataStorageHashMapStructure, DataStorageMapStructure, hashHeap, mapHeap,
             validFlag, refs>>

\* the lock, the threads and the free-standing cells: untouched by the storage
\* calls made from a single thread
conc == <<lock, thr, cellVars>>

storeVars == <<RecordTemplate, DataStorageHashMapStructure, DataStorageMapStructure,
               DataStorageRecordFillers, hashHeap, mapHeap, nTables, RecordsList,
               recHeap, validFlag>>

\* ------------------------------------------------- DataSaver (type-erased cell)
EmptySaver == [Ptr |-> NullPtr, DataType |-> NoType, DeleteFunc |-> NoFunc]

\* DataSaver::SetData(data, deleteFunc): fresh copy of the value, its type, the callback
DataSaver_SetData(s, data, tag, deleteFunc) ==
    [Ptr |-> data, DataType |-> tag, DeleteFunc |-> deleteFunc]

\* DataSaver::GetData<T>(out): [ret, out]
DataSaver_GetData(s, tag, out) ==
    IF s.DataType # NoType /\ s.DataType # tag
    THEN [ret |-> FALSE, out |-> out]
    ELSE IF s.Ptr = NullPtr
         THEN [ret |-> FALSE, out |-> out]
         ELSE [ret |-> TRUE, out |-> s.Ptr]

\* mutant: assigning from an empty cell clears the value but keeps the type tag
DataSaver_Assign_KeepTag(dst, src) ==
    IF src.Ptr # NullPtr
    THEN [Ptr |-> src.Ptr, DataType |-> src.DataType, DeleteFunc |-> src.DeleteFunc]
    ELSE [dst EXCEPT !.Ptr = NullPtr]

\* DataSaver::operator=(dataSaver)
DataSaver_Assign(dst, src) ==
    IF src.Ptr # NullPtr
    THEN [Ptr |-> src.Ptr, DataType |-> src.DataType, DeleteFunc |-> src.DeleteFunc]
    ELSE [dst EXCEPT !.Ptr = NullPtr, !.DataType = NoType]

\* DataSaver(const DataSaver&): operator= on a default-initialised object
DataSaver_Copy(src) == DataSaver_Assign(EmptySaver, src)

\* ------------------------------------------------- DataContainer (unique keys)
\* a container is a function key -> DataSaver whose DOMAIN is the set of keys held

\* mutant: the cell of a key that is already held is replaced
DataContainer_AddData_Overwrite(C, key, data, tag, deleteFunc) ==
    [k \in (DOMAIN C) \cup {key} |->
        IF k = key THEN DataSaver_SetData(EmptySaver, data, tag, deleteFunc) ELSE C[k]]

\* DataContainer::AddData(key, data, deleteFunc): emplace on std::unordered_map
DataContainer_AddData(C, key, data, tag, deleteFunc) ==
    IF key \in DOMAIN C
    THEN C
    ELSE [k \in (DOMAIN C) \cup {key} |->
            IF k = key THEN DataSaver_SetData(EmptySaver, data, tag, deleteFunc) ELSE C[k]]

\* mutant: an existing cell is left as it is (SetData behaving as AddData)
DataContainer_SetData_KeepOld(C, key, data, tag, deleteFunc) ==
    DataContainer_AddData(C, key, data, tag, deleteFunc)

\* DataContainer::SetData(key, data, deleteFunc)
DataContainer_SetData(C, key, data, tag, deleteFunc) ==
    IF key \notin DOMAIN C
    THEN DataContainer_AddData(C, key, data, tag, deleteFunc)
    ELSE [C EXCEPT ![key] = DataSaver_SetData(C[key], data, tag, deleteFunc)]

\* DataContainer::GetData<T>(key, out): true whenever the key is found
DataContainer_GetData(C, key, tag, out) ==
    IF key \notin DOMAIN C
    THEN [ret |-> FALSE, out |-> out]
    ELSE [ret |-> TRUE, out |-> DataSaver_GetData(C[key], tag, out).out]

\* the resources DeleteData() of cell s hands to the release callback
Released(s) == IF s.DeleteFunc # NoFunc THEN {s.Ptr} ELSE {}

\* an erase returns [C, ran]: the container it leaves and the resources whose
\* release callback it ran
\* DataContainer::DeleteData(key) on std::unordered_map: DeleteData() then erase(key)
DataContainer_DeleteData(C, key) ==
    IF key \notin DOMAIN C
    THEN [C |-> C, ran |-> {}]
    ELSE [C |-> [k \in (DOMAIN C) \ {key} |-> C[k]], ran |-> Released(C[key])]

\* mutant: the copy holds the keys of the original but none of its values
DataHashMap_Copy_NoValues(C) == [k \in DOMAIN C |-> EmptySaver]

\* DataHashMap(const DataHashMap&): element-wise DataSaver copy
DataHashMap_Copy(C) == [k \in DOMAIN C |-> DataSaver_Copy(C[k])]

EmptyContainer == [k \in {} |-> EmptySaver]

\* ------------------------------------------------- multimap helpers
\* a table is a function <<value, record>> -> number of entries (a multimap)
Entries == Vals \X RecIds
EmptyTable == [e \in Entries |-> 0]

\* mutant: the old entry is never erased
EraseOne_Never(table, old, rec) == table

\* equal_range(old) scanned for the first entry whose second is rec; erase it
\* (the range is empty for an old value the table holds no entry under)
EraseOne(table, old, rec) ==
    IF <<old, rec>> \in Entries /\ table[<<old, rec>>] > 0
    THEN [table EXCEPT ![<<old, rec>>] = @ - 1]
    ELSE table

\* mutant: emplace inserts nothing when the same entry is already stored
Emplace_IfAbsent(table, v, rec) == [table EXCEPT ![<<v, rec>>] = 1]

\* emplace(v, rec) on a multimap: always inserts
Emplace(table, v, rec) == [table EXCEPT ![<<v, rec>>] = @ + 1]

\* the entries find(v) may return: any entry stored under v
Bucket(table, v) == {e \in Entries : e[1] = v /\ table[e] > 0}

RECURSIVE SumOver(_, _)
SumOver(table, S) ==
    IF S = {} THEN 0
    ELSE LET e == CHOOSE x \in S : TRUE
         IN table[e] + SumOver(table, S \ {e})

\* number of entries of the table that point at rec
EntriesOf(table, rec) == SumOver(table, {e \in Entries : e[2] = rec})

\* ------------------------------------------------- unique-key map helpers
\* a table of the prototype is a function value -> record, NullPtr where the
\* value is not a key (std::unordered_map<T, DataHashMap*>)
EmptyMap == [v \in Vals |-> NullPtr]

\* emplace(v, rec) on std::unordered_map: nothing is inserted under a key present
Map_Emplace(tab, v, rec) ==
    IF tab[v] # NullPtr THEN tab ELSE [tab EXCEPT ![v] = rec]

\* erase(v): the entry stored under v, whichever record it points at
Map_Erase(tab, v) == [tab EXCEPT ![v] = NullPtr]

\* find(v): the record stored under v, NullPtr for end()
Map_Find(tab, v) == tab[v]

\* ------------------------------------------------- initial state
\* the last call: its operation, its return value and what it wrote to its output
Res(op, ret, out) == [op |-> op, ret |-> ret, out |-> out]

Init ==
    /\ generation \in Generations
    /\ KeysMaps = EmptyContainer
    /\ keyHeap = [h \in Handles |-> [alloc |-> "free", tab |-> EmptyMap]]
    /\ dsr = [s \in DsrIds |-> [Data |-> NullPtr, KeysMaps |-> NullPtr]]
    /\ RecordTemplate = EmptyContainer
    /\ DataStorageHashMapStructure = EmptyContainer
    /\ DataStorageMapStructure = EmptyContainer
    /\ DataStorageRecordFillers = [k \in {} |-> [hash |-> 0, map |-> 0, def |-> 0]]
    /\ hashHeap = [h \in Handles |-> [alloc |-> "free", tab |-> EmptyTable]]
    /\ mapHeap = [h \in Handles |-> [alloc |-> "free", tab |-> EmptyTable]]
    /\ nTables = 0
    /\ RecordsList = <<>>
    /\ recHeap = [r \in RecIds |-> [alloc |-> "free", Container |-> EmptyContainer]]
    /\ validFlag = [r \in RecIds |-> FALSE]
    /\ refs = [s \in RefIds |-> [DataRecord |-> NullPtr]]
    /\ phase = "live"
    /\ fault = "none"
    /\ res = Res("init", FALSE, NullPtr)
    /\ lock = [writer |-> 0, readers |-> {}]
    /\ thr = [t \in Threads |-> IdleThread]
    /\ cell = [c \in CellIds |-> EmptySaver]
    /\ uniq = EmptyContainer
    /\ multi = [k \in Keys |-> <<>>]
    /\ invoked = [p \in Resources |-> 0]
    /\ nextRes = 0

\* the storage DataStorageRecordRef belongs to, constructed
InitLibrary == Init /\ generation = "library"

Running == phase = "live" /\ fault = "none"

\* the declarations a client makes: a key is first declared with the type main
\* declares it with, and may be declared again with any default of any type
Declarable(k) == IF k \in DOMAIN RecordTemplate THEN TypedVals ELSE DeclVals(k)
Prototype == generation = "prototype"
Library == generation = "library"

\* ------------------------------------------------- DataStorage (prototype)
\* DataStorage::AddParam<T>(paramName, defaultParamValue)
AddParam(paramName, d) ==
    /\ UNCHANGED <<conc, generation, library>>
    /\ Prototype
    /\ Running
    /\ nTables < MaxTables
    /\ LET pointer == nTables + 1 IN
         /\ RecordTemplate' =
              DataContainer_AddData(RecordTemplate, paramName, d.v, ValTag(d.t), NoFunc)
         /\ keyHeap' = [keyHeap EXCEPT ![pointer] = [alloc |-> "live", tab |-> EmptyMap]]
         /\ nTables' = pointer
         /\ KeysMaps' =
              DataContainer_AddData(KeysMaps, paramName, pointer, KeyTag(d.t), DeleteTable)
         /\ DataStorageRecordFillers' =
              IF paramName \in DOMAIN DataStorageRecordFillers
              THEN DataStorageRecordFillers
              ELSE [k \in (DOMAIN DataStorageRecordFillers) \cup {paramName} |->
                      IF k = paramName THEN [pointer |-> pointer, def |-> d.v]
                      ELSE DataStorageRecordFillers[k]]
    /\ res' = Res("declareField", TRUE, NullPtr)
    /\ UNCHANGED <<RecordsList, recHeap, dsr, phase, fault>>

\* for (auto& it : DataStorageRecordFillers) it.second(newData): every filler
\* runs pointer->emplace(defaultParamValue, newRecord) on its own table
RunFillers(heap, newRecord) ==
    [h \in Handles |->
        IF \E k \in DOMAIN DataStorageRecordFillers :
              DataStorageRecordFillers[k].pointer = h
        THEN LET k == CHOOSE k \in DOMAIN DataStorageRecordFillers :
                         DataStorageRecordFillers[k].pointer = h
             IN [heap[h] EXCEPT !.tab =
                    Map_Emplace(@, DataStorageRecordFillers[k].def, newRecord)]
        ELSE heap[h]]

\* DataStorage::CreateNewRecord(), the returned object assigned to dsr[s]
CreateNewRecord(s) ==
    /\ UNCHANGED <<conc, generation, library>>
    /\ Prototype
    /\ Running
    /\ Len(RecordsList) < MaxRecords
    /\ LET newData == Len(RecordsList) + 1 IN
         /\ recHeap' = [recHeap EXCEPT ![newData] =
                           [alloc |-> "live", Container |-> DataHashMap_Copy(RecordTemplate)]]
         /\ RecordsList' = Append(RecordsList, newData)
         /\ keyHeap' = RunFillers(keyHeap, newData)
         /\ dsr' = [dsr EXCEPT ![s] = [Data |-> newData, KeysMaps |-> ThisKeysMaps]]
         /\ res' = Res("createRecord", TRUE, NullPtr)
    /\ UNCHANGED <<RecordTemplate, KeysMaps, DataStorageRecordFillers, nTables,
                   phase, fault>>

\* DataStorage::GetRecord<T>(paramName, paramValue, foundedRecord) on table heap
\* `heap`: the outcomes [ret, rec, fault]; rec = NullPtr means foundedRecord is
\* left as it was
GetRecordOn(heap, paramName, pv) ==
    LET g == DataContainer_GetData(KeysMaps, paramName, KeyTag(pv.t), NullPtr)
    IN IF g.ret
       THEN IF g.out = NullPtr
            THEN \* the typed read failed and reqMap is still nullptr
                 {[ret |-> b, rec |-> NullPtr, fault |-> "null_deref"] : b \in BOOLEAN}
            ELSE LET f == Map_Find(heap[g.out].tab, pv.v)
                 IN IF f # NullPtr
                    THEN {[ret |-> TRUE, rec |-> f, fault |-> "none"]}
                    ELSE {[ret |-> FALSE, rec |-> NullPtr, fault |-> "none"]}
       ELSE {[ret |-> FALSE, rec |-> NullPtr, fault |-> "none"]}

GetRecordOutcomes(paramName, pv) == GetRecordOn(keyHeap, paramName, pv)

GetRecord(paramName, pv, s) ==
    /\ UNCHANGED <<conc, generation, library>>
    /\ Prototype
    /\ Running
    /\ \E o \in GetRecordOutcomes(paramName, pv) :
         /\ dsr' = IF o.rec # NullPtr
                   THEN [dsr EXCEPT ![s] = [Data |-> o.rec, KeysMaps |-> ThisKeysMaps]]
                   ELSE dsr
         /\ fault' = o.fault
         /\ res' = Res("findByField", o.ret, NullPtr)
    /\ UNCHANGED <<RecordTemplate, KeysMaps, DataStorageRecordFillers, keyHeap, nTables,
                   RecordsList, recHeap, phase>>

\* ------------------------------------------------- DataStorageRecord (prototype)
\* what an uninitialised int reads as when it equals no value a caller stored
Indeterminate == 0

\* the local T oldData a failed GetData leaves unwritten: a default-constructed
\* std::string is the empty string, a value callers store as well (main declares
\* "name" with the default ""); an int is not initialised and reads as any
\* value, stored or not
Unwritten(t) == IF t = "str" THEN {EmptyString} ELSE Vals \cup {Indeterminate}

\* the value Data->GetData(key, oldData) leaves in the local T oldData: the stored
\* value, or, when the record has no such key, the unwritten variable
LocalOldData(C, key, t) ==
    IF DataContainer_GetData(C, key, ValTag(t), NullPtr).out # NullPtr
    THEN {DataContainer_GetData(C, key, ValTag(t), NullPtr).out}
    ELSE Unwritten(t)

\* KeyToRecordIt->second->DeleteData(key); KeyToRecordIt->second->AddData(key, data)
SetData_Found(heap, found, key, d) ==
    [heap EXCEPT ![found].Container =
        DataContainer_AddData(DataContainer_DeleteData(@, key).C,
                              key, d.v, ValTag(d.t), NoFunc)]

\* pointer->erase(oldData); pointer->emplace(data, Data)
SetData_Table(tab, oldData, data, Data) == Map_Emplace(Map_Erase(tab, oldData), data, Data)

\* DataStorageRecord::SetData<T>(key, data) on dsr[s]: the outcomes
\* [fault, key, rec] the call can have in the current state
DataStorageRecord_SetDataOutcomes(s, key, d) ==
    LET this == dsr[s]
        g == DataContainer_GetData(KeysMaps, key, KeyTag(d.t), NullPtr)
        Same(f) == [fault |-> f, key |-> keyHeap, rec |-> recHeap]
    IN
    IF this.KeysMaps = NullPtr \/ this.Data = NullPtr
    THEN {Same("null_deref")}
    ELSE IF phase = "dead"
    THEN \* the storage, its tables and its records are destroyed
         {Same("use_after_free")}
    ELSE IF g.out = NullPtr
    THEN \* key not in KeysMaps, or a cell of another type: pointer is still nullptr
         {Same("null_deref")}
    ELSE {LET found == IF oldData \in Vals
                       THEN Map_Find(keyHeap[g.out].tab, oldData) ELSE NullPtr
          IN IF found = NullPtr
             THEN \* find(oldData) = end(), dereferenced
                  Same("end_deref")
             ELSE [fault |-> "none",
                   key |-> [keyHeap EXCEPT ![g.out].tab =
                               SetData_Table(@, oldData, d.v, this.Data)],
                   rec |-> [SetData_Found(recHeap, found, key, d)
                               EXCEPT ![this.Data].Container =
                                  DataContainer_SetData(@, key, d.v, ValTag(d.t), NoFunc)]] :
             oldData \in LocalOldData(recHeap[this.Data].Container, key, d.t)}

DataStorageRecord_SetData(s, key, d) ==
    /\ UNCHANGED <<conc, generation, library>>
    /\ Prototype
    /\ fault = "none"
    /\ phase # "tearing"
    /\ \E o \in DataStorageRecord_SetDataOutcomes(s, key, d) :
         /\ keyHeap' = o.key
         /\ recHeap' = o.rec
         /\ fault' = o.fault
         /\ res' = Res("SetData", o.fault = "none", NullPtr)
    /\ UNCHANGED <<RecordTemplate, KeysMaps, DataStorageRecordFillers, nTables,
                   RecordsList, dsr, phase>>

\* DataStorageRecord::GetData<T>(key, data) on the DataStorageRecord this, over the
\* records of heap: the outcomes [ret, out, fault]
DataStorageRecord_GetDataOn(heap, this, key, t, out0) ==
    LET Data == this.Data IN
    IF Data = NullPtr
    THEN {[ret |-> b, out |-> out0, fault |-> "null_deref"] : b \in BOOLEAN}
    ELSE IF heap[Data].alloc # "live"
    THEN {[ret |-> b, out |-> out0, fault |-> "use_after_free"] : b \in BOOLEAN}
    ELSE LET g == DataContainer_GetData(heap[Data].Container, key, ValTag(t), out0)
         IN {[ret |-> g.ret, out |-> g.out, fault |-> "none"]}

DataStorageRecord_GetDataOutcomes(s, key, t, out0) ==
    DataStorageRecord_GetDataOn(recHeap, dsr[s], key, t, out0)

DataStorageRecord_GetData(s, key, t) ==
    /\ UNCHANGED <<conc, generation, library>>
    /\ Prototype
    /\ fault = "none"
    /\ phase # "tearing"
    /\ \E o \in DataStorageRecord_GetDataOutcomes(s, key, t, NullPtr) :
         /\ fault' = o.fault
         /\ res' = Res("GetData", o.ret, o.out)
    /\ UNCHANGED <<RecordTemplate, KeysMaps, DataStorageRecordFillers, keyHeap, nTables,
                   RecordsList, recHeap, dsr, phase>>

\* DataStorageRecord::SetDataHashMapPtr(data), data a record of the storage or nullptr
SetDataHashMapPtr(s, data) ==
    /\ UNCHANGED <<conc, generation, library>>
    /\ Prototype
    /\ fault = "none"
    /\ phase # "tearing"
    /\ data = NullPtr \/ data \in 1..Len(RecordsList)
    /\ dsr' = [dsr EXCEPT ![s].Data = data]
    /\ res' = Res("SetDataHashMapPtr", TRUE, NullPtr)
    /\ UNCHANGED <<RecordTemplate, KeysMaps, DataStorageRecordFillers, keyHeap, nTables,
                   RecordsList, recHeap, phase, fault>>

\* DataStorageRecord::SetParamMapsPtr(paramMaps)
SetParamMapsPtr(s, paramMaps) ==
    /\ UNCHANGED <<conc, generation, library>>
    /\ Prototype
    /\ fault = "none"
    /\ phase # "tearing"
    /\ dsr' = [dsr EXCEPT ![s].KeysMaps = paramMaps]
    /\ res' = Res("SetParamMapsPtr", TRUE, NullPtr)
    /\ UNCHANGED <<RecordTemplate, KeysMaps, DataStorageRecordFillers, keyHeap, nTables,
                   RecordsList, recHeap, phase, fault>>

\* ------------------------------------------------- storage of the library
\* declareField(name, defaultValue): the default and its type go into the schema,
\* a fresh equality/ordering table pair is allocated and registered, and a
\* seeding rule for future records is registered; a name already declared
\* keeps its first registration
declareField(paramName, d) ==
    /\ UNCHANGED <<conc, generation, proto>>
    /\ Library
    /\ Running
    /\ nTables < MaxTables
    /\ LET h == nTables + 1 IN
         /\ RecordTemplate' =
              DataContainer_AddData(RecordTemplate, paramName, d.v, ValTag(d.t), NoFunc)
         /\ hashHeap' = [hashHeap EXCEPT ![h] = [alloc |-> "live", tab |-> EmptyTable]]
         /\ mapHeap' = [mapHeap EXCEPT ![h] = [alloc |-> "live", tab |-> EmptyTable]]
         /\ nTables' = h
         /\ DataStorageHashMapStructure' =
              DataContainer_AddData(DataStorageHashMapStructure, paramName, h,
                                    HashTag(d.t), DeleteTable)
         /\ DataStorageMapStructure' =
              DataContainer_AddData(DataStorageMapStructure, paramName, h,
                                    MapTag(d.t), DeleteTable)
         /\ DataStorageRecordFillers' =
              IF paramName \in DOMAIN DataStorageRecordFillers
              THEN DataStorageRecordFillers
              ELSE [k \in (DOMAIN DataStorageRecordFillers) \cup {paramName} |->
                      IF k = paramName THEN [hash |-> h, map |-> h, def |-> d.v]
                      ELSE DataStorageRecordFillers[k]]
    /\ res' = Res("declareField", TRUE, NullPtr)
    /\ UNCHANGED <<RecordsList, recHeap, validFlag, refs, phase, fault>>

\* every seeding rule run on the new record: an entry (default, record) is
\* emplaced into the table of the rule
SeedIndices(heap, sel, rec) ==
    [h \in Handles |->
        IF \E k \in DOMAIN DataStorageRecordFillers : sel[k] = h
        THEN LET k == CHOOSE k \in DOMAIN DataStorageRecordFillers : sel[k] = h
             IN [heap[h] EXCEPT !.tab = Emplace(@, DataStorageRecordFillers[k].def, rec)]
        ELSE heap[h]]

\* createRecord(), the returned reference stored in ref slot s
createRecord(s) ==
    /\ UNCHANGED <<conc, generation, proto>>
    /\ Library
    /\ Running
    /\ Len(RecordsList) < MaxRecords
    /\ LET r == Len(RecordsList) + 1 IN
         /\ recHeap' = [recHeap EXCEPT ![r] =
                           [alloc |-> "live", Container |-> DataHashMap_Copy(RecordTemplate)]]
         /\ validFlag' = [validFlag EXCEPT ![r] = TRUE]
         /\ RecordsList' = Append(RecordsList, r)
         /\ hashHeap' = SeedIndices(hashHeap,
                          [k \in DOMAIN DataStorageRecordFillers |->
                              DataStorageRecordFillers[k].hash], r)
         /\ mapHeap' = SeedIndices(mapHeap,
                          [k \in DOMAIN DataStorageRecordFillers |->
                              DataStorageRecordFillers[k].map], r)
         /\ refs' = [refs EXCEPT ![s] = [DataRecord |-> r]]
         /\ res' = Res("createRecord", TRUE, NullPtr)
    /\ UNCHANGED <<RecordTemplate, DataStorageHashMapStructure, DataStorageMapStructure,
                   DataStorageRecordFillers, nTables, phase, fault>>

\* findByField<T>(name, value, outRef) on table heap
\* `heap`: the outcomes [ret, rec, fault]; rec = NullPtr means foundedRecord is
\* left as it was
findByFieldOn(heap, paramName, pv) ==
    LET g == DataContainer_GetData(DataStorageHashMapStructure, paramName,
                                   HashTag(pv.t), NullPtr)
    IN IF g.ret
       THEN IF g.out = NullPtr
            THEN {[ret |-> b, rec |-> NullPtr, fault |-> "null_deref"] : b \in BOOLEAN}
            ELSE LET B == Bucket(heap[g.out].tab, pv.v)
                 IN IF B # {}
                    THEN {[ret |-> TRUE, rec |-> e[2], fault |-> "none"] : e \in B}
                    ELSE {[ret |-> FALSE, rec |-> NullPtr, fault |-> "none"]}
       ELSE {[ret |-> FALSE, rec |-> NullPtr, fault |-> "none"]}

findByFieldOutcomes(paramName, pv) == findByFieldOn(hashHeap, paramName, pv)

findByField(paramName, pv, s) ==
    /\ UNCHANGED <<conc, generation, proto>>
    /\ Library
    /\ Running
    /\ \E o \in findByFieldOutcomes(paramName, pv) :
         /\ refs' = IF o.rec # NullPtr THEN [refs EXCEPT ![s] = [DataRecord |-> o.rec]]
                    ELSE refs
         /\ fault' = o.fault
         /\ res' = Res("findByField", o.ret, NullPtr)
    /\ UNCHANGED <<storeVars, phase>>

\* ------------------------------------------------- DataStorageRecordRef
\* the value DataRecord->GetData(key, oldData) leaves in oldData: the stored value,
\* or, when the key is absent, the unwritten T oldData
OldDataChoices(C, key, t) ==
    IF DataContainer_GetData(C, key, ValTag(t), NullPtr).out # NullPtr
    THEN {DataContainer_GetData(C, key, ValTag(t), NullPtr).out}
    ELSE Unwritten(t)

\* part_000:131-146: erase the old entry of the equality index, emplace the new one
SetData_HashStep(heap, h, old, v, rec) ==
    [heap EXCEPT ![h].tab = Emplace(EraseOne(@, old, rec), v, rec)]

\* mutant: the ordering index keeps the entry under the old value
SetData_MapStep_NoErase(heap, h, old, v, rec) ==
    [heap EXCEPT ![h].tab = Emplace(@, v, rec)]

\* part_000:149-164: erase the old entry of the ordering index, emplace the new one
SetData_MapStep(heap, h, old, v, rec) ==
    [heap EXCEPT ![h].tab = Emplace(EraseOne(@, old, rec), v, rec)]

\* mutant: the payload of the record is not written
SetData_RecordStep_Nop(heap, rec, key, d) == heap

\* part_000:167: DataRecord->SetData(key, data)
SetData_RecordStep(heap, rec, key, d) ==
    [heap EXCEPT ![rec].Container =
        DataContainer_SetData(@, key, d.v, ValTag(d.t), NoFunc)]

\* DataStorageRecordRef::SetData<T>(key, data) through ref slot s: the outcomes
\* [ret, fault, hash, map, rec] the call can have in the current state
RefSetDataOutcomes(s, key, d) ==
    LET r == refs[s].DataRecord
        g1 == DataContainer_GetData(DataStorageHashMapStructure, key, HashTag(d.t), NullPtr)
        g2 == DataContainer_GetData(DataStorageMapStructure, key, MapTag(d.t), NullPtr)
        Same(ret, f) == [ret |-> ret, fault |-> f, hash |-> hashHeap,
                         map |-> mapHeap, rec |-> recHeap]
    IN
    IF r = NullPtr
    THEN \* DataStorageHashMapStructure of the ref is nullptr
         {Same(b, "null_deref") : b \in BOOLEAN}
    ELSE IF phase = "dead"
    THEN \* the structures the ref points to are destroyed
         {Same(b, "use_after_free") : b \in BOOLEAN}
    ELSE IF ~g1.ret
    THEN {Same(FALSE, "none")}
    ELSE IF ~g2.ret
    THEN {Same(FALSE, "none")}
    ELSE IF g1.out = NullPtr \/ g2.out = NullPtr
    THEN \* the typed read left the table pointer nullptr; equal_range on it
         {Same(b, "null_deref") : b \in BOOLEAN}
    ELSE {[ret |-> TRUE, fault |-> "none",
           hash |-> SetData_HashStep(hashHeap, g1.out, old, d.v, r),
           map |-> SetData_MapStep(mapHeap, g2.out, old, d.v, r),
           rec |-> SetData_RecordStep(recHeap, r, key, d)] :
             old \in OldDataChoices(recHeap[r].Container, key, d.t)}

RefSetData(s, key, d) ==
    /\ UNCHANGED <<conc, generation, proto>>
    /\ Library
    /\ fault = "none"
    /\ phase # "tearing"
    /\ \E o \in RefSetDataOutcomes(s, key, d) :
         /\ hashHeap' = o.hash
         /\ mapHeap' = o.map
         /\ recHeap' = o.rec
         /\ fault' = o.fault
         /\ res' = Res("SetData", o.ret, NullPtr)
    /\ UNCHANGED <<RecordTemplate, DataStorageHashMapStructure, DataStorageMapStructure,
                   DataStorageRecordFillers, nTables, RecordsList, validFlag, refs, phase>>

\* DataStorageRecordRef::GetData<T>(key, data) on record heap `heap`: the outcomes
\* [ret, out, fault], the caller's variable holding out0 before the call
RefGetDataOn(heap, s, key, t, out0) ==
    LET r == refs[s].DataRecord IN
    IF r = NullPtr
    THEN {[ret |-> b, out |-> out0, fault |-> "null_deref"] : b \in BOOLEAN}
    ELSE IF heap[r].alloc # "live"
    THEN {[ret |-> b, out |-> out0, fault |-> "use_after_free"] : b \in BOOLEAN}
    ELSE LET g == DataContainer_GetData(heap[r].Container, key, ValTag(t), out0)
         IN {[ret |-> g.ret, out |-> g.out, fault |-> "none"]}

RefGetDataOutcomes(s, key, t, out0) == RefGetDataOn(recHeap, s, key, t, out0)

RefGetData(s, key, t) ==
    /\ UNCHANGED <<conc, generation, proto>>
    /\ Library
    /\ fault = "none"
    /\ phase # "tearing"
    /\ \E o \in RefGetDataOutcomes(s, key, t, NullPtr) :
         /\ fault' = o.fault
         /\ res' = Res("GetData", o.ret, o.out)
    /\ UNCHANGED <<storeVars, refs, phase>>

\* DataStorageRecordRef::IsValid(): reads the weak copy of the validity flag
IsValidResult(s) ==
    refs[s].DataRecord # NullPtr /\ validFlag[refs[s].DataRecord]

\* DataStorageRecordRef::Unlink()
Unlink(s) ==
    /\ UNCHANGED <<conc, generation, proto>>
    /\ Library
    /\ fault = "none"
    /\ phase # "tearing"
    /\ refs[s].DataRecord # NullPtr
    /\ refs' = [refs EXCEPT ![s] = [DataRecord |-> NullPtr]]
    /\ res' = Res("Unlink", TRUE, NullPtr)
    /\ UNCHANGED <<storeVars, phase, fault>>

\* ------------------------------------------------- teardown
PendingCells(C) == {k \in DOMAIN C : C[k].DeleteFunc # NoFunc}

BeginTeardown ==
    /\ UNCHANGED <<conc, generation, proto>>
    /\ Running
    /\ phase' = "tearing"
    /\ res' = Res("teardown", TRUE, NullPtr)
    /\ UNCHANGED <<storeVars, refs, fault>>

\* DataSaver::DeleteData(): DeleteFunc(Ptr); DeleteFunc = nullptr
DataSaver_DeleteData(s) == [s EXCEPT !.DeleteFunc = NoFunc]

\* the release callback of an index table: delete the table
ReleaseTable(heap, h) ==
    [heap EXCEPT ![h] = [alloc |-> "released", tab |-> EmptyTable]]

\* teardown of the library storage: the equality index of one field is released
TeardownHashIndex(k) ==
    /\ UNCHANGED <<conc, generation, proto>>
    /\ Library
    /\ phase = "tearing"
    /\ k \in PendingCells(DataStorageHashMapStructure)
    /\ hashHeap' = ReleaseTable(hashHeap, DataStorageHashMapStructure[k].Ptr)
    /\ DataStorageHashMapStructure' =
         [DataStorageHashMapStructure EXCEPT ![k] = DataSaver_DeleteData(@)]
    /\ UNCHANGED <<RecordTemplate, DataStorageMapStructure, DataStorageRecordFillers,
                   mapHeap, nTables, RecordsList, recHeap, validFlag, refs, phase,
                   fault, res>>

\* teardown of the library storage: the ordering index of one field is released
TeardownMapIndex(k) ==
    /\ UNCHANGED <<conc, generation, proto>>
    /\ Library
    /\ phase = "tearing"
    /\ PendingCells(DataStorageHashMapStructure) = {}
    /\ k \in PendingCells(DataStorageMapStructure)
    /\ mapHeap' = ReleaseTable(mapHeap, DataStorageMapStructure[k].Ptr)
    /\ DataStorageMapStructure' =
         [DataStorageMapStructure EXCEPT ![k] = DataSaver_DeleteData(@)]
    /\ UNCHANGED <<RecordTemplate, DataStorageHashMapStructure, DataStorageRecordFillers,
                   hashHeap, nTables, RecordsList, recHeap, validFlag, refs, phase,
                   fault, res>>

\* the first loop of ~DataStorage has run to its end
IndicesReleased ==
    /\ PendingCells(KeysMaps) = {}
    /\ PendingCells(DataStorageHashMapStructure) = {}
    /\ PendingCells(DataStorageMapStructure) = {}

\* the record the loop for (auto& it : RecordsList) delete it; is at
NextToDelete ==
    IF \E i \in 1..Len(RecordsList) : recHeap[RecordsList[i]].alloc = "live"
    THEN RecordsList[CHOOSE i \in 1..Len(RecordsList) :
            /\ recHeap[RecordsList[i]].alloc = "live"
            /\ \A j \in 1..(i - 1) : recHeap[RecordsList[j]].alloc # "live"]
    ELSE NullPtr

\* ~DataStorageRecord, first half: the validity flag is set to false
RecordDtor_ClearFlag ==
    /\ UNCHANGED <<conc, generation, proto>>
    /\ Library
    /\ phase = "tearing"
    /\ IndicesReleased
    /\ NextToDelete # NullPtr
    /\ validFlag[NextToDelete]
    /\ validFlag' = [validFlag EXCEPT ![NextToDelete] = FALSE]
    /\ UNCHANGED <<RecordTemplate, DataStorageHashMapStructure, DataStorageMapStructure,
                   DataStorageRecordFillers, hashHeap, mapHeap, nTables, RecordsList,
                   recHeap, refs, phase, fault, res>>

\* ~DataStorageRecord, second half: the record's storage is released
RecordDtor_Release ==
    /\ UNCHANGED <<conc, generation, proto>>
    /\ Library
    /\ phase = "tearing"
    /\ IndicesReleased
    /\ NextToDelete # NullPtr
    /\ ~validFlag[NextToDelete]
    /\ recHeap' = [recHeap EXCEPT ![NextToDelete] =
                      [alloc |-> "released", Container |-> EmptyContainer]]
    /\ UNCHANGED <<RecordTemplate, DataStorageHashMapStructure, DataStorageMapStructure,
                   DataStorageRecordFillers, hashHeap, mapHeap, nTables, RecordsList,
                   validFlag, refs, phase, fault, res>>

\* mutant: the callback leaves the table and its entries in place
ReleaseMap_KeepsTable(heap, h) == heap

\* the release callback of a KeysMaps cell: delete the table
ReleaseMap(heap, h) ==
    [heap EXCEPT ![h] = [alloc |-> "released", tab |-> EmptyMap]]

\* ~DataStorage of the prototype, first loop, one iteration:
\* for (auto& it : KeysMaps) it.second.DeleteData()
Dtor_KeysMaps(k) ==
    /\ UNCHANGED <<conc, generation, library>>
    /\ Prototype
    /\ phase = "tearing"
    /\ k \in PendingCells(KeysMaps)
    /\ keyHeap' = ReleaseMap(keyHeap, KeysMaps[k].Ptr)
    /\ KeysMaps' = [KeysMaps EXCEPT ![k] = DataSaver_DeleteData(@)]
    /\ UNCHANGED <<RecordTemplate, DataStorageRecordFillers, nTables, RecordsList,
                   recHeap, dsr, phase, fault, res>>

\* ~DataStorage of the prototype, second loop, one iteration:
\* for (auto& it : RecordsList) delete it
Dtor_RecordsList ==
    /\ UNCHANGED <<conc, generation, library>>
    /\ Prototype
    /\ phase = "tearing"
    /\ IndicesReleased
    /\ NextToDelete # NullPtr
    /\ recHeap' = [recHeap EXCEPT ![NextToDelete] =
                      [alloc |-> "released", Container |-> EmptyContainer]]
    /\ UNCHANGED <<RecordTemplate, KeysMaps, DataStorageRecordFillers, keyHeap, nTables,
                   RecordsList, dsr, phase, fault, res>>

EndTeardown ==
    /\ UNCHANGED <<conc, generation, proto>>
    /\ phase = "tearing"
    /\ IndicesReleased
    /\ NextToDelete = NullPtr
    /\ phase' = "dead"
    /\ UNCHANGED <<storeVars, refs, fault, res>>

\* ------------------------------------------------- specification
Next ==
    \/ \E k \in Keys : \E d \in Declarable(k) : AddParam(k, d)
    \/ \E s \in DsrIds : CreateNewRecord(s)
    \/ \E k \in Keys, d \in TypedVals, s \in DsrIds : GetRecord(k, d, s)
    \/ \E s \in DsrIds, k \in Keys, d \in TypedVals : DataStorageRecord_SetData(s, k, d)
    \/ \E s \in DsrIds, k \in Keys, t \in Types : DataStorageRecord_GetData(s, k, t)
    \/ \E s \in DsrIds, data \in {NullPtr} \cup RecIds : SetDataHashMapPtr(s, data)
    \/ \E s \in DsrIds, paramMaps \in {NullPtr, ThisKeysMaps} : SetParamMapsPtr(s, paramMaps)
    \/ \E k \in Keys : Dtor_KeysMaps(k)
    \/ Dtor_RecordsList
    \/ \E k \in Keys : \E d \in Declarable(k) : declareField(k, d)
    \/ \E s \in RefIds : createRecord(s)
    \/ \E k \in Keys, d \in TypedVals, s \in RefIds : findByField(k, d, s)
    \/ \E s \in RefIds, k \in Keys, d \in TypedVals : RefSetData(s, k, d)
    \/ \E s \in RefIds, k \in Keys, t \in Types : RefGetData(s, k, t)
    \/ \E s \in RefIds : Unlink(s)
    \/ BeginTeardown
    \/ \E k \in Keys : TeardownHashIndex(k)
    \/ \E k \in Keys : TeardownMapIndex(k)
    \/ RecordDtor_ClearFlag
    \/ RecordDtor_Release
    \/ EndTeardown

Spec == Init /\ [][Next]_vars

\* ------------------------------------------------- vocabulary of the properties
Live(r) == recHeap[r].alloc = "live"
\* f is a declared field of the library storage / of the prototype storage
Declared(f) == Library /\ f \in DOMAIN RecordTemplate
KeyDeclared(f) == Prototype /\ f \in DOMAIN KeysMaps
Undeclared(f) == Library /\ f \notin DOMAIN RecordTemplate
KeyUndeclared(f) == Prototype /\ f \notin DOMAIN KeysMaps
FieldType(f) == RecordTemplate[f].DataType[2]
Holds(r, f) == f \in DOMAIN recHeap[r].Container
ValueOf(r, f) == recHeap[r].Container[f].Ptr
Typed(f, v) == [t |-> FieldType(f), v |-> v]
HashTableOf(f) == hashHeap[DataStorageHashMapStructure[f].Ptr].tab
MapTableOf(f) == mapHeap[DataStorageMapStructure[f].Ptr].tab
KeyTableOf(f) == keyHeap[KeysMaps[f].Ptr].tab
ValidRef(s) == phase = "live" /\ refs[s].DataRecord # NullPtr /\ Live(refs[s].DataRecord)
\* a DataStorageRecord of the prototype bound to a record and to KeysMaps
BoundDsr(s) ==
    /\ Prototype /\ phase = "live" /\ fault = "none"
    /\ dsr[s].Data # NullPtr /\ dsr[s].KeysMaps # NullPtr
\* the values under which the table of f holds an entry that points at r
KeysOf(tab, r) == {v \in Vals : tab[v] = r}

\* ------------------------------------------------- C1
\* C1: for every live record r and declared field f, findByField on the value r
\* holds for f returns true and binds the ref to r itself, also when several
\* live records hold that value; in the prototype storage (GetRecord on the
\* table of KeysMaps) and in the library storage (findByField on the equality
\* index).
C1_LookupBindsThatRecord ==
    (phase = "live" /\ fault = "none") =>
      \A r \in RecIds, f \in Keys :
        /\ (Live(r) /\ KeyDeclared(f) /\ Holds(r, f)) =>
              \A o \in GetRecordOutcomes(f, Typed(f, ValueOf(r, f))) :
                o.ret /\ o.rec = r
        /\ (Live(r) /\ Declared(f) /\ Holds(r, f)) =>
              \A o \in findByFieldOutcomes(f, Typed(f, ValueOf(r, f))) :
                o.ret /\ o.rec = r

\* ------------------------------------------------- C2
\* C2: between complete operations, for every live record r and declared field f
\* (also a field declared after r was created) every index of f holds exactly
\* one entry pointing at r, keyed by r's value of f: the table of KeysMaps in
\* the prototype storage, the equality and the ordering index in the library
\* storage.
C2_ExactlyOneEntryPerIndex ==
    (phase = "live" /\ fault = "none") =>
      \A r \in RecIds, f \in Keys :
        /\ (Live(r) /\ KeyDeclared(f)) =>
              /\ Holds(r, f)
              /\ KeysOf(KeyTableOf(f), r) = {ValueOf(r, f)}
        /\ (Live(r) /\ Declared(f)) =>
              /\ EntriesOf(HashTableOf(f), r) = 1
              /\ EntriesOf(MapTableOf(f), r) = 1
              /\ Holds(r, f)
              /\ HashTableOf(f)[<<ValueOf(r, f), r>>] = 1
              /\ MapTableOf(f)[<<ValueOf(r, f), r>>] = 1

\* ------------------------------------------------- C3
\* C3: for every valid ref, declared field f and value v of f's declared type,
\* SetData(f, v) returns true and the GetData(f, out) that follows on that ref
\* returns true with out = v.
C3_RoundTrip ==
    \A s \in RefIds, f \in Keys, v \in Vals :
      (ValidRef(s) /\ Declared(f)) =>
        \A o \in RefSetDataOutcomes(s, f, Typed(f, v)) :
          /\ o.ret
          /\ o.fault = "none"
          /\ RefGetDataOn(o.rec, s, f, FieldType(f), NullPtr) =
                {[ret |-> TRUE, out |-> v, fault |-> "none"]}

\* a SetData returned true and left a record off the default of a field
C3_Witness ==
    /\ res.op = "SetData"
    /\ res.ret
    /\ fault = "none"
    /\ \E r \in RecIds, f \in Keys :
         Live(r) /\ Declared(f) /\ Holds(r, f) /\ ValueOf(r, f) # RecordTemplate[f].Ptr

\* ------------------------------------------------- C4
\* C4: GetData and SetData called with a type other than f's declared type return
\* false, leave out untouched and change neither the payload nor the indices.
C4_TypeMismatchFails ==
    \A s \in RefIds, f \in Keys, t \in Types :
      (ValidRef(s) /\ Declared(f) /\ Holds(refs[s].DataRecord, f) /\ t # FieldType(f)) =>
        /\ \A o \in RefGetDataOutcomes(s, f, t, NullPtr) :
             ~o.ret /\ o.out = NullPtr /\ o.fault = "none"
        /\ \A v \in Vals : \A o \in RefSetDataOutcomes(s, f, [t |-> t, v |-> v]) :
             /\ ~o.ret
             /\ o.fault = "none"
             /\ o.hash = hashHeap /\ o.map = mapHeap /\ o.rec = recHeap

\* ------------------------------------------------- C5
\* C5: once a record is destroyed every ref that targeted it reports IsValid() =
\* false, and SetData and GetData on it return false without touching the
\* destroyed record or changing any payload or index.
C5_InvalidRefCallsFail ==
    \A s \in RefIds :
      (phase = "dead" /\ refs[s].DataRecord # NullPtr
          /\ recHeap[refs[s].DataRecord].alloc = "released") =>
        /\ ~IsValidResult(s)
        /\ \A f \in Keys, t \in Types :
             \A o \in RefGetDataOutcomes(s, f, t, NullPtr) :
               ~o.ret /\ o.out = NullPtr /\ o.fault = "none"
        /\ \A f \in Keys, d \in TypedVals :
             \A o \in RefSetDataOutcomes(s, f, d) :
               /\ ~o.ret
               /\ o.fault = "none"
               /\ o.hash = hashHeap /\ o.map = mapHeap /\ o.rec = recHeap

\* ------------------------------------------------- C8
\* C8: for a field name that was never declared, findByField, GetData and SetData
\* return false and leave every payload, every index and the output argument
\* unchanged: GetRecord, DataStorageRecord::GetData and DataStorageRecord::SetData
\* (which returns nothing: it completes and changes nothing) of the prototype,
\* findByField and GetData and SetData of DataStorageRecordRef.
C8_UndeclaredFieldFails ==
    (phase = "live" /\ fault = "none") =>
      \A f \in Keys :
        /\ KeyUndeclared(f) =>
              /\ \A pv \in TypedVals :
                   GetRecordOutcomes(f, pv) =
                     {[ret |-> FALSE, rec |-> NullPtr, fault |-> "none"]}
              /\ \A s \in DsrIds :
                   BoundDsr(s) =>
                     /\ \A t \in Types :
                          DataStorageRecord_GetDataOutcomes(s, f, t, NullPtr) =
                            {[ret |-> FALSE, out |-> NullPtr, fault |-> "none"]}
                     /\ \A d \in TypedVals :
                          DataStorageRecord_SetDataOutcomes(s, f, d) =
                            {[fault |-> "none", key |-> keyHeap, rec |-> recHeap]}
        /\ Undeclared(f) =>
              /\ \A pv \in TypedVals :
                   findByFieldOutcomes(f, pv) =
                     {[ret |-> FALSE, rec |-> NullPtr, fault |-> "none"]}
              /\ \A s \in RefIds :
                   ValidRef(s) =>
                     /\ \A t \in Types :
                          RefGetDataOutcomes(s, f, t, NullPtr) =
                            {[ret |-> FALSE, out |-> NullPtr, fault |-> "none"]}
                     /\ \A d \in TypedVals :
                          RefSetDataOutcomes(s, f, d) =
                            {[ret |-> FALSE, fault |-> "none", hash |-> hashHeap,
                              map |-> mapHeap, rec |-> recHeap]}

\* ------------------------------------------------- C9
\* the live records that hold value x for field f on record heap `heap`
HoldersOn(heap, f, x) ==
    {q \in RecIds : /\ heap[q].alloc = "live"
                    /\ f \in DOMAIN heap[q].Container
                    /\ heap[q].Container[f].Ptr = x}

\* C9: after a successful SetData that changes field f of record r from old to
\* v # old, findByField(f, old) never binds to r and returns false when no other
\* live record holds old; after every successful SetData, also one on a record
\* that held no value for f, findByField(f, x) returns false for every value x no
\* live record holds and binds only to a record that holds x.  Checked for
\* DataStorageRecord::SetData with GetRecord (prototype, where a SetData that
\* completes is the successful one) and for DataStorageRecordRef::SetData with
\* findByField (library).
C9_NoStaleEntry ==
    /\ \A s \in DsrIds, f \in Keys, v \in Vals :
         (BoundDsr(s) /\ KeyDeclared(f)) =>
           LET r == dsr[s].Data
           IN \A o \in DataStorageRecord_SetDataOutcomes(s, f, Typed(f, v)) :
                o.fault = "none" =>
                  /\ (Holds(r, f) /\ ValueOf(r, f) # v) =>
                        \A q \in GetRecordOn(o.key, f, Typed(f, ValueOf(r, f))) :
                          /\ q.rec # r
                          /\ (HoldersOn(o.rec, f, ValueOf(r, f)) = {} => ~q.ret)
                  /\ \A x \in Vals : \A q \in GetRecordOn(o.key, f, Typed(f, x)) :
                       /\ q.fault = "none"
                       /\ (HoldersOn(o.rec, f, x) = {} => ~q.ret)
                       /\ (q.ret => q.rec \in HoldersOn(o.rec, f, x))
    /\ \A s \in RefIds, f \in Keys, v \in Vals :
         (ValidRef(s) /\ Declared(f)) =>
           LET r == refs[s].DataRecord
           IN \A o \in RefSetDataOutcomes(s, f, Typed(f, v)) :
                /\ o.ret
                /\ (Holds(r, f) /\ ValueOf(r, f) # v) =>
                      \A q \in findByFieldOn(o.hash, f, Typed(f, ValueOf(r, f))) :
                        /\ q.rec # r
                        /\ (HoldersOn(o.rec, f, ValueOf(r, f)) = {} => ~q.ret)
                /\ \A x \in Vals : \A q \in findByFieldOn(o.hash, f, Typed(f, x)) :
                     /\ q.fault = "none"
                     /\ (HoldersOn(o.rec, f, x) = {} => ~q.ret)
                     /\ (q.ret => q.rec \in HoldersOn(o.rec, f, x))

\* in the prototype a SetData moved the record of the caller off the default and
\* a later lookup of the default returned false, and a SetData of a declared field
\* that the record of the caller does not hold would complete
C9_Witness ==
    /\ Prototype
    /\ phase = "live"
    /\ res.op = "findByField"
    /\ ~res.ret
    /\ fault = "none"
    /\ \E f \in Keys, r \in RecIds :
         /\ KeyDeclared(f) /\ Live(r) /\ Holds(r, f)
         /\ ValueOf(r, f) # RecordTemplate[f].Ptr
         /\ KeyTableOf(f)[ValueOf(r, f)] = r
         /\ KeyTableOf(f)[RecordTemplate[f].Ptr] = NullPtr
    /\ \E s \in DsrIds, f \in Keys, v \in Vals :
         /\ BoundDsr(s) /\ KeyDeclared(f) /\ ~Holds(dsr[s].Data, f)
         /\ \E o \in DataStorageRecord_SetDataOutcomes(s, f, Typed(f, v)) :
              o.fault = "none"

\* ------------------------------------------------- calls made under the lock
\* The shared/exclusive lock is supplied by the caller (ReadWriteMutex): mutations
\* run in an exclusive section, pure reads in a shared section.  SetData is split
\* at the points where its three structures have been updated one after another.
LockFree == lock.writer = 0 /\ lock.readers = {}

\* mutant: the exclusive lock is granted while readers are inside
AcquireExclusive_IgnoresReaders(t) ==
    /\ lock.writer = 0
    /\ lock' = [lock EXCEPT !.writer = t]

\* acquire-exclusive: no writer and no reader inside
AcquireExclusive(t) ==
    /\ LockFree
    /\ lock' = [lock EXCEPT !.writer = t]

ReleaseExclusive(t) ==
    /\ lock.writer = t
    /\ lock' = [lock EXCEPT !.writer = 0]

\* mutant: a reader enters while a writer is inside
AcquireShared_IgnoresWriter(t) ==
    lock' = [lock EXCEPT !.readers = @ \cup {t}]

\* acquire-shared: no writer inside
AcquireShared(t) ==
    /\ lock.writer = 0
    /\ lock' = [lock EXCEPT !.readers = @ \cup {t}]

ReleaseShared(t) ==
    /\ t \in lock.readers
    /\ lock' = [lock EXCEPT !.readers = @ \ {t}]

\* declareField and createRecord, each one exclusive section of the main thread
L_declareField(k, d) == LockFree /\ declareField(k, d)

L_createRecord(s) == LockFree /\ createRecord(s)

\* SetData, part_000:121-146, entered under the exclusive lock
L_SetData_Hash(t, s, f, v) ==
    /\ Running
    /\ thr[t].pc = "idle"
    /\ ValidRef(s)
    /\ Declared(f)
    /\ AcquireExclusive(t)
    /\ LET r == refs[s].DataRecord
           g1 == DataContainer_GetData(DataStorageHashMapStructure, f,
                                       HashTag(FieldType(f)), NullPtr)
       IN \E old \in OldDataChoices(recHeap[r].Container, f, FieldType(f)) :
            /\ hashHeap' = SetData_HashStep(hashHeap, g1.out, old, v, r)
            /\ thr' = [thr EXCEPT ![t] =
                          [pc |-> "w_map", s |-> s, key |-> f, v |-> v, old |-> old]]
    /\ UNCHANGED <<RecordTemplate, DataStorageHashMapStructure, DataStorageMapStructure,
                   DataStorageRecordFillers, mapHeap, nTables, RecordsList, recHeap,
                   validFlag, refs, phase, fault, res>>
    /\ UNCHANGED <<cellVars, generation, proto>>

\* SetData, part_000:149-164
L_SetData_Map(t) ==
    /\ thr[t].pc = "w_map"
    /\ LET c == thr[t]
           g2 == DataContainer_GetData(DataStorageMapStructure, c.key,
                                       MapTag(FieldType(c.key)), NullPtr)
       IN mapHeap' = SetData_MapStep(mapHeap, g2.out, c.old, c.v, refs[c.s].DataRecord)
    /\ thr' = [thr EXCEPT ![t].pc = "w_rec"]
    /\ UNCHANGED <<RecordTemplate, DataStorageHashMapStructure, DataStorageMapStructure,
                   DataStorageRecordFillers, hashHeap, nTables, RecordsList, recHeap,
                   validFlag, refs, phase, fault, res, lock>>
    /\ UNCHANGED <<cellVars, generation, proto>>

\* SetData, part_000:166-168, and the end of the exclusive section
L_SetData_Record(t) ==
    /\ thr[t].pc = "w_rec"
    /\ LET c == thr[t]
       IN recHeap' = SetData_RecordStep(recHeap, refs[c.s].DataRecord, c.key,
                                        Typed(c.key, c.v))
    /\ ReleaseExclusive(t)
    /\ thr' = [thr EXCEPT ![t] = IdleThread]
    /\ res' = Res("SetData", TRUE, NullPtr)
    /\ UNCHANGED <<RecordTemplate, DataStorageHashMapStructure, DataStorageMapStructure,
                   DataStorageRecordFillers, hashHeap, mapHeap, nTables, RecordsList,
                   validFlag, refs, phase, fault>>
    /\ UNCHANGED <<cellVars, generation, proto>>

\* a thread is about to read and asks for the shared lock
L_WantRead(t) ==
    /\ Running
    /\ thr[t].pc = "idle"
    /\ thr' = [thr EXCEPT ![t].pc = "want_read"]
    /\ UNCHANGED <<storeVars, refs, phase, fault, res, lock>>
    /\ UNCHANGED <<cellVars, generation, proto>>

L_AcquireShared(t) ==
    /\ thr[t].pc = "want_read"
    /\ AcquireShared(t)
    /\ thr' = [thr EXCEPT ![t].pc = "reading"]
    /\ UNCHANGED <<storeVars, refs, phase, fault, res>>
    /\ UNCHANGED <<cellVars, generation, proto>>

\* GetData in the shared section, then the section ends
L_GetData(t, s, f) ==
    /\ thr[t].pc = "reading"
    /\ ValidRef(s)
    /\ \E o \in RefGetDataOutcomes(s, f, DeclType(f), NullPtr) :
         res' = Res("GetData", o.ret, o.out)
    /\ ReleaseShared(t)
    /\ thr' = [thr EXCEPT ![t] = IdleThread]
    /\ UNCHANGED <<storeVars, refs, phase, fault>>
    /\ UNCHANGED <<cellVars, generation, proto>>

\* findByField into a temporary ref in the shared section, then the section ends
L_findByField(t, f, v) ==
    /\ thr[t].pc = "reading"
    /\ \E o \in findByFieldOutcomes(f, [t |-> DeclType(f), v |-> v]) :
         res' = Res("findByField", o.ret, NullPtr)
    /\ ReleaseShared(t)
    /\ thr' = [thr EXCEPT ![t] = IdleThread]
    /\ UNCHANGED <<storeVars, refs, phase, fault>>
    /\ UNCHANGED <<cellVars, generation, proto>>

NextLocked ==
    \/ \E k \in Keys : \E d \in Declarable(k) : L_declareField(k, d)
    \/ \E s \in RefIds : L_createRecord(s)
    \/ \E t \in Threads, s \in RefIds, f \in Keys, v \in Vals : L_SetData_Hash(t, s, f, v)
    \/ \E t \in Threads : L_SetData_Map(t)
    \/ \E t \in Threads : L_SetData_Record(t)
    \/ \E t \in Threads : L_WantRead(t)
    \/ \E t \in Threads : L_AcquireShared(t)
    \/ \E t \in Threads, s \in RefIds, f \in Keys : L_GetData(t, s, f)
    \/ \E t \in Threads, f \in Keys, v \in Vals : L_findByField(t, f, v)

SpecLocked == InitLibrary /\ [][NextLocked]_vars

\* ------------------------------------------------- C10
\* the values under which the equality and the ordering index hold record r for
\* field f, and the value the payload of r holds for f
HashValuesOf(r, f) == {v \in Vals : HashTableOf(f)[<<v, r>>] > 0}
MapValuesOf(r, f) == {v \in Vals : MapTableOf(f)[<<v, r>>] > 0}
PayloadValuesOf(r, f) == IF Holds(r, f) THEN {ValueOf(r, f)} ELSE {}
FieldAgrees(r, f) ==
    /\ HashValuesOf(r, f) = PayloadValuesOf(r, f)
    /\ MapValuesOf(r, f) = PayloadValuesOf(r, f)

\* C10: with the mutations in exclusive sections and the reads in shared
\* sections, whenever a reader is inside its section the payload, the equality
\* index entry and the ordering index entry of every record agree for every field.
C10_ReadersSeeNoPartialSetData ==
    (\E t \in Threads : thr[t].pc = "reading") =>
       \A r \in RecIds, f \in Keys : (Live(r) /\ Declared(f)) => FieldAgrees(r, f)

\* a SetData is half done (the indices and the payload of its record disagree)
\* while another thread is waiting to read
C10_Witness ==
    \E t1, t2 \in Threads :
      /\ thr[t1].pc \in {"w_map", "w_rec"}
      /\ thr[t2].pc = "want_read"
      /\ ~FieldAgrees(refs[thr[t1].s].DataRecord, thr[t1].key)

\* ------------------------------------------------- C11
\* C11: a SetData(f, v) through a ref to record r changes no field value of any
\* other record and no index entry that points at another record, also when
\* another live record holds the same old value of f as r; for
\* DataStorageRecord::SetData on the table of KeysMaps and for
\* DataStorageRecordRef::SetData on the two indices.
C11_RecordsIndependent ==
    /\ \A s \in DsrIds, f \in Keys, d \in TypedVals :
         BoundDsr(s) =>
           \A o \in DataStorageRecord_SetDataOutcomes(s, f, d) :
             o.fault = "none" =>
               \A q \in RecIds \ {dsr[s].Data} :
                 /\ o.rec[q] = recHeap[q]
                 /\ \A h \in Handles : KeysOf(o.key[h].tab, q) = KeysOf(keyHeap[h].tab, q)
    /\ \A s \in RefIds, f \in Keys, d \in TypedVals :
         ValidRef(s) =>
           \A o \in RefSetDataOutcomes(s, f, d) :
             \A q \in RecIds \ {refs[s].DataRecord} :
               /\ o.rec[q] = recHeap[q]
               /\ \A h \in Handles, x \in Vals :
                    /\ o.hash[h].tab[<<x, q>>] = hashHeap[h].tab[<<x, q>>]
                    /\ o.map[h].tab[<<x, q>>] = mapHeap[h].tab[<<x, q>>]

\* ------------------------------------------------- C12
\* C12: after a successful SetData(f, v) through one ref, GetData(f, out) through
\* any other valid ref to the same record returns true with out = v; for two
\* DataStorageRecord objects on one record of the prototype storage, where a
\* SetData that completes is the successful one, and for two
\* DataStorageRecordRef on one record of the library storage.
C12_SharedRefsSeeWrites ==
    /\ \A s \in DsrIds, f \in Keys, d \in TypedVals, k \in {NullPtr, ThisKeysMaps} :
         (BoundDsr(s) /\ KeyDeclared(f)) =>
           \A o \in DataStorageRecord_SetDataOutcomes(s, f, d) :
             o.fault = "none" =>
               DataStorageRecord_GetDataOn(o.rec, [Data |-> dsr[s].Data, KeysMaps |-> k],
                                           f, d.t, NullPtr) =
                  {[ret |-> TRUE, out |-> d.v, fault |-> "none"]}
    /\ \A s1, s2 \in RefIds, f \in Keys, v \in Vals :
         (s1 # s2 /\ ValidRef(s1) /\ ValidRef(s2) /\ Declared(f)
            /\ refs[s1].DataRecord = refs[s2].DataRecord) =>
           \A o \in RefSetDataOutcomes(s1, f, Typed(f, v)) :
             o.ret => RefGetDataOn(o.rec, s2, f, FieldType(f), NullPtr) =
                         {[ret |-> TRUE, out |-> v, fault |-> "none"]}

\* a GetData read a value off the default while two different refs target the
\* record that holds it
C12_Witness ==
    /\ res.op = "GetData"
    /\ res.ret
    /\ fault = "none"
    /\ \E s1, s2 \in RefIds, f \in Keys :
         /\ s1 # s2 /\ ValidRef(s1) /\ ValidRef(s2)
         /\ refs[s1].DataRecord = refs[s2].DataRecord
         /\ Declared(f) /\ Holds(refs[s1].DataRecord, f)
         /\ ValueOf(refs[s1].DataRecord, f) = res.out
         /\ res.out # RecordTemplate[f].Ptr

\* ------------------------------------------------- C14
\* C14: findByField<T> on a declared field whose declared type differs from T
\* returns false, leaves the ref unchanged and dereferences no unset table
\* pointer (DataStorage::GetRecord on the table of KeysMaps).
C14_MistypedLookupFails ==
    (phase = "live" /\ fault = "none") =>
      \A f \in Keys, pv \in TypedVals :
        (KeyDeclared(f) /\ pv.t # FieldType(f)) =>
          GetRecordOutcomes(f, pv) = {[ret |-> FALSE, rec |-> NullPtr, fault |-> "none"]}

\* ------------------------------------------------- C16
\* C16: createRecord adds exactly one record to the live records and changes no
\* other record; the new record holds every declared field at the declared
\* default, has an entry under that default in every index of every declared
\* field (also when other live records hold the same default), and the
\* returned ref is bound to the new record; for DataStorage::CreateNewRecord on
\* the tables of KeysMaps and for createRecord on the two indices.
C16_CreateRecordSeedsDefaults ==
    /\ []((Prototype /\ res.op = "createRecord") =>
            LET r == RecordsList[Len(RecordsList)] IN
            /\ Live(r)
            /\ \E s \in DsrIds : dsr[s] = [Data |-> r, KeysMaps |-> ThisKeysMaps]
            /\ DOMAIN recHeap[r].Container = DOMAIN RecordTemplate
            /\ \A f \in Keys :
                 KeyDeclared(f) =>
                   /\ ValueOf(r, f) = RecordTemplate[f].Ptr
                   /\ recHeap[r].Container[f].DataType = RecordTemplate[f].DataType
                   /\ RecordTemplate[f].Ptr \in KeysOf(KeyTableOf(f), r))
    /\ []((Library /\ res.op = "createRecord") =>
            LET r == RecordsList[Len(RecordsList)] IN
            /\ Live(r)
            /\ validFlag[r]
            /\ \E s \in RefIds : ValidRef(s) /\ refs[s].DataRecord = r
            /\ DOMAIN recHeap[r].Container = DOMAIN RecordTemplate
            /\ \A f \in Keys :
                 Declared(f) =>
                   /\ ValueOf(r, f) = RecordTemplate[f].Ptr
                   /\ recHeap[r].Container[f].DataType = RecordTemplate[f].DataType
                   /\ HashTableOf(f)[<<RecordTemplate[f].Ptr, r>>] = 1
                   /\ MapTableOf(f)[<<RecordTemplate[f].Ptr, r>>] = 1)
    /\ [][(\E s \in DsrIds : CreateNewRecord(s)) \/ (\E s \in RefIds : createRecord(s)) =>
               /\ Len(RecordsList') = Len(RecordsList) + 1
               /\ \A q \in RecIds :
                    Live(q) => (Live(q)' /\ recHeap'[q] = recHeap[q])
               /\ Cardinality({q \in RecIds : Live(q)'}) =
                     Cardinality({q \in RecIds : Live(q)}) + 1]_vars

\* ------------------------------------------------- free-standing cells
\* DataSaver objects a caller owns directly: SetData with and without a release
\* callback, copy construction, copy assignment, GetData and DeleteData.
storageSide == <<storeVars, refs, phase, lock, thr, generation, proto>>

\* DeleteFunc(Ptr) run for every resource of ran: delete *(T**)ptr
RunCallbacks(ran) ==
    /\ invoked' = [p \in Resources |-> IF p \in ran THEN invoked[p] + 1 ELSE invoked[p]]
    /\ fault' = IF NullPtr \in ran THEN "null_deref"
                ELSE IF \E p \in ran : invoked[p] > 0 THEN "double_free"
                ELSE fault

\* cell.SetData(data): DataSaver::SetData(data, nullptr)
Cell_SetData(c, d) ==
    /\ fault = "none"
    /\ cell' = [cell EXCEPT ![c] = DataSaver_SetData(@, d.v, ValTag(d.t), NoFunc)]
    /\ res' = Res("Cell_SetData", TRUE, NullPtr)
    /\ UNCHANGED <<uniq, multi, invoked, nextRes, fault, storageSide>>

\* cell.SetData(new resource, deleteFunc)
Cell_SetDataOwned(c) ==
    /\ fault = "none"
    /\ nextRes < MaxRes
    /\ nextRes' = nextRes + 1
    /\ cell' = [cell EXCEPT ![c] = DataSaver_SetData(@, nextRes + 1, PtrTag, DeleteRes)]
    /\ res' = Res("Cell_SetDataOwned", TRUE, NullPtr)
    /\ UNCHANGED <<uniq, multi, invoked, fault, storageSide>>

\* dst = src: DataSaver::operator=, a no-op on self-assignment
Cell_Assign(dst, src) ==
    /\ fault = "none"
    /\ cell' = [cell EXCEPT ![dst] =
                   IF dst = src THEN @ ELSE DataSaver_Assign(@, cell[src])]
    /\ res' = Res("Cell_Assign", TRUE, NullPtr)
    /\ UNCHANGED <<uniq, multi, invoked, nextRes, fault, storageSide>>

\* the object in slot dst is replaced by DataSaver(src)
Cell_CopyConstruct(dst, src) ==
    /\ fault = "none"
    /\ dst # src
    /\ cell' = [cell EXCEPT ![dst] = DataSaver_Copy(cell[src])]
    /\ res' = Res("Cell_CopyConstruct", TRUE, NullPtr)
    /\ UNCHANGED <<uniq, multi, invoked, nextRes, fault, storageSide>>

\* cell.GetData<T>(out), out holding NullPtr before the call
Cell_GetData(c, tag) ==
    /\ fault = "none"
    /\ LET g == DataSaver_GetData(cell[c], tag, NullPtr)
       IN res' = Res("Cell_GetData", g.ret, g.out)
    /\ UNCHANGED <<cellVars, fault, storageSide>>

\* cell.DeleteData()
Cell_DeleteData(c) ==
    /\ fault = "none"
    /\ RunCallbacks(Released(cell[c]))
    /\ cell' = [cell EXCEPT ![c] = DataSaver_DeleteData(@)]
    /\ res' = Res("Cell_DeleteData", cell[c].DeleteFunc # NoFunc, NullPtr)
    /\ UNCHANGED <<uniq, multi, nextRes, storageSide>>

NextCells ==
    \/ \E c \in CellIds, d \in TypedVals : Cell_SetData(c, d)
    \/ \E c \in CellIds : Cell_SetDataOwned(c)
    \/ \E dst, src \in CellIds : Cell_Assign(dst, src)
    \/ \E dst, src \in CellIds : Cell_CopyConstruct(dst, src)
    \/ \E c \in CellIds, tag \in CellTags : Cell_GetData(c, tag)
    \/ \E c \in CellIds : Cell_DeleteData(c)

SpecCells == Init /\ [][NextCells]_vars

\* ------------------------------------------------- C15
\* C15: over every sequence of cell operations (SetData with a callback, copy
\* construction, copy assignment, overwrite, DeleteData) the release callback is
\* invoked at most once for each owned resource, and an ordinary overwrite of a
\* cell's value never invokes it.
C15_CallbackAtMostOnce ==
    /\ [](\A p \in Resources : invoked[p] <= 1)
    /\ [][(\E c \in CellIds, d \in TypedVals : Cell_SetData(c, d))
            => invoked' = invoked]_vars

\* ------------------------------------------------- C17
\* C17: in every reachable cell state the type tag is absent exactly when the
\* value is absent, and GetData<T>(out) returns true with out = the stored value
\* exactly when a value is held and T is the stored tag; otherwise it returns
\* false and leaves out as it was.
C17_CellReadIsTypeChecked ==
    \A c \in CellIds :
      /\ (cell[c].DataType = NoType) <=> (cell[c].Ptr = NullPtr)
      /\ \A tag \in CellTags, out0 \in {NullPtr} \cup Vals :
           LET g == DataSaver_GetData(cell[c], tag, out0) IN
           /\ g.ret <=> (cell[c].Ptr # NullPtr /\ cell[c].DataType = tag)
           /\ g.ret => g.out = cell[c].Ptr
           /\ ~g.ret => g.out = out0

\* a GetData failed while one cell holds a value and another cell, once the
\* holder of an owned pointer, has been assigned from an empty cell
C17_Witness ==
    /\ res.op = "Cell_GetData"
    /\ ~res.ret
    /\ \E c1, c2 \in CellIds :
         /\ cell[c1].Ptr # NullPtr
         /\ cell[c2].Ptr = NullPtr /\ cell[c2].DeleteFunc # NoFunc

\* ------------------------------------------------- free-standing containers
\* A DataHashMap (unique keys) and a DataMultiHashMap (many cells per key) a
\* caller owns directly.  An erase returns [C, ran]: the container it leaves and
\* the resources whose release callback it ran.

\* DataSaver::ResetData(): the release callback is run and the cell is emptied
DataSaver_ResetData(s) == EmptySaver

\* DataContainer::EraseData(key) on std::unordered_map: ResetData() then erase(f)
DataContainer_EraseData(C, key) ==
    IF key \notin DOMAIN C
    THEN [C |-> C, ran |-> {}]
    ELSE [C |-> [k \in (DOMAIN C) \ {key} |-> C[k]], ran |-> Released(C[key])]

RemoveAt(seq, i) == SubSeq(seq, 1, i - 1) \o SubSeq(seq, i + 1, Len(seq))

\* DataContainer::AddData on std::unordered_multimap: emplace always inserts
DataMultiHashMap_AddData(M, key, data, tag, deleteFunc) ==
    [M EXCEPT ![key] = Append(@, DataSaver_SetData(EmptySaver, data, tag, deleteFunc))]

\* DataContainer::SetData on std::unordered_multimap: find(key) yields one of the
\* cells stored under key; the outcomes, one per cell find may yield
DataMultiHashMap_SetData(M, key, data, tag, deleteFunc) ==
    IF M[key] = <<>>
    THEN {DataMultiHashMap_AddData(M, key, data, tag, deleteFunc)}
    ELSE {[M EXCEPT ![key][i] = DataSaver_SetData(@, data, tag, deleteFunc)] :
             i \in 1..Len(M[key])}

\* DataContainer::DeleteData(key) on std::unordered_multimap: DeleteData() on the
\* cell find(key) yields, then erase(key) removes every cell stored under key
DataMultiHashMap_DeleteData(M, key) ==
    IF M[key] = <<>>
    THEN {[C |-> M, ran |-> {}]}
    ELSE {[C |-> [M EXCEPT ![key] = <<>>], ran |-> Released(M[key][i])] :
             i \in 1..Len(M[key])}

\* DataContainer::EraseData(key) on std::unordered_multimap: ResetData() on the
\* cell find(key) yields, then erase(f) removes that cell
DataMultiHashMap_EraseData(M, key) ==
    IF M[key] = <<>>
    THEN {[C |-> M, ran |-> {}]}
    ELSE {[C |-> [M EXCEPT ![key] = RemoveAt(@, i)], ran |-> Released(M[key][i])] :
             i \in 1..Len(M[key])}

\* DataContainer::Clear() on std::unordered_map: Container.clear(), no release
\* callback is run
DataContainer_Clear(C) == EmptyContainer

\* DataContainer::Clear() on std::unordered_multimap
DataMultiHashMap_Clear(M) == [k \in DOMAIN M |-> <<>>]

\* uniq.AddData(key, data)
U_AddData(k, d) ==
    /\ fault = "none"
    /\ uniq' = DataContainer_AddData(uniq, k, d.v, ValTag(d.t), NoFunc)
    /\ res' = Res("U_AddData", TRUE, NullPtr)
    /\ UNCHANGED <<cell, multi, invoked, nextRes, fault, storageSide>>

\* uniq.AddData(key, new resource, deleteFunc)
U_AddDataOwned(k) ==
    /\ fault = "none"
    /\ nextRes < MaxRes
    /\ nextRes' = nextRes + 1
    /\ uniq' = DataContainer_AddData(uniq, k, nextRes + 1, PtrTag, DeleteRes)
    /\ res' = Res("U_AddDataOwned", TRUE, NullPtr)
    /\ UNCHANGED <<cell, multi, invoked, fault, storageSide>>

\* uniq.SetData(key, data): DataContainer::SetData(key, data, nullptr)
U_SetData(k, d) ==
    /\ fault = "none"
    /\ uniq' = DataContainer_SetData(uniq, k, d.v, ValTag(d.t), NoFunc)
    /\ res' = Res("U_SetData", TRUE, NullPtr)
    /\ UNCHANGED <<cell, multi, invoked, nextRes, fault, storageSide>>

\* uniq.SetData(key, new resource, deleteFunc)
U_SetDataOwned(k) ==
    /\ fault = "none"
    /\ nextRes < MaxRes
    /\ nextRes' = nextRes + 1
    /\ uniq' = DataContainer_SetData(uniq, k, nextRes + 1, PtrTag, DeleteRes)
    /\ res' = Res("U_SetDataOwned", TRUE, NullPtr)
    /\ UNCHANGED <<cell, multi, invoked, fault, storageSide>>

\* uniq.DeleteData(key)
U_DeleteData(k) ==
    /\ fault = "none"
    /\ LET o == DataContainer_DeleteData(uniq, k) IN
         /\ uniq' = o.C
         /\ RunCallbacks(o.ran)
    /\ res' = Res("U_DeleteData", k \in DOMAIN uniq, NullPtr)
    /\ UNCHANGED <<cell, multi, nextRes, storageSide>>

\* uniq.EraseData(key)
U_EraseData(k) ==
    /\ fault = "none"
    /\ LET o == DataContainer_EraseData(uniq, k) IN
         /\ uniq' = o.C
         /\ RunCallbacks(o.ran)
    /\ res' = Res("U_EraseData", k \in DOMAIN uniq, NullPtr)
    /\ UNCHANGED <<cell, multi, nextRes, storageSide>>

\* uniq.Clear()
U_Clear ==
    /\ fault = "none"
    /\ uniq' = DataContainer_Clear(uniq)
    /\ res' = Res("U_Clear", TRUE, NullPtr)
    /\ UNCHANGED <<cell, multi, invoked, nextRes, fault, storageSide>>

\* a cell reached through begin()/end(): it->second.DeleteData() on the cell of k
U_It_DeleteData(k) ==
    /\ fault = "none"
    /\ k \in DOMAIN uniq
    /\ RunCallbacks(Released(uniq[k]))
    /\ uniq' = [uniq EXCEPT ![k] = DataSaver_DeleteData(@)]
    /\ res' = Res("U_It_DeleteData", uniq[k].DeleteFunc # NoFunc, NullPtr)
    /\ UNCHANGED <<cell, multi, nextRes, storageSide>>

\* multi.AddData(key, data)
M_AddData(k, d) ==
    /\ fault = "none"
    /\ Len(multi[k]) < MaxMulti
    /\ multi' = DataMultiHashMap_AddData(multi, k, d.v, ValTag(d.t), NoFunc)
    /\ res' = Res("M_AddData", TRUE, NullPtr)
    /\ UNCHANGED <<cell, uniq, invoked, nextRes, fault, storageSide>>

\* multi.AddData(key, new resource, deleteFunc)
M_AddDataOwned(k) ==
    /\ fault = "none"
    /\ Len(multi[k]) < MaxMulti
    /\ nextRes < MaxRes
    /\ nextRes' = nextRes + 1
    /\ multi' = DataMultiHashMap_AddData(multi, k, nextRes + 1, PtrTag, DeleteRes)
    /\ res' = Res("M_AddDataOwned", TRUE, NullPtr)
    /\ UNCHANGED <<cell, uniq, invoked, fault, storageSide>>

\* multi.SetData(key, data)
M_SetData(k, d) ==
    /\ fault = "none"
    /\ multi' \in DataMultiHashMap_SetData(multi, k, d.v, ValTag(d.t), NoFunc)
    /\ res' = Res("M_SetData", TRUE, NullPtr)
    /\ UNCHANGED <<cell, uniq, invoked, nextRes, fault, storageSide>>

\* multi.SetData(key, new resource, deleteFunc)
M_SetDataOwned(k) ==
    /\ fault = "none"
    /\ nextRes < MaxRes
    /\ nextRes' = nextRes + 1
    /\ multi' \in DataMultiHashMap_SetData(multi, k, nextRes + 1, PtrTag, DeleteRes)
    /\ res' = Res("M_SetDataOwned", TRUE, NullPtr)
    /\ UNCHANGED <<cell, uniq, invoked, fault, storageSide>>

\* multi.Clear()
M_Clear ==
    /\ fault = "none"
    /\ multi' = DataMultiHashMap_Clear(multi)
    /\ res' = Res("M_Clear", TRUE, NullPtr)
    /\ UNCHANGED <<cell, uniq, invoked, nextRes, fault, storageSide>>

\* a cell reached through begin()/end(): it->second.DeleteData() on one cell of k
M_It_DeleteData(k, i) ==
    /\ fault = "none"
    /\ i \in 1..Len(multi[k])
    /\ RunCallbacks(Released(multi[k][i]))
    /\ multi' = [multi EXCEPT ![k][i] = DataSaver_DeleteData(@)]
    /\ res' = Res("M_It_DeleteData", multi[k][i].DeleteFunc # NoFunc, NullPtr)
    /\ UNCHANGED <<cell, uniq, nextRes, storageSide>>

\* multi.DeleteData(key)
M_DeleteData(k) ==
    /\ fault = "none"
    /\ \E o \in DataMultiHashMap_DeleteData(multi, k) :
         /\ multi' = o.C
         /\ RunCallbacks(o.ran)
    /\ res' = Res("M_DeleteData", multi[k] # <<>>, NullPtr)
    /\ UNCHANGED <<cell, uniq, nextRes, storageSide>>

\* multi.EraseData(key)
M_EraseData(k) ==
    /\ fault = "none"
    /\ \E o \in DataMultiHashMap_EraseData(multi, k) :
         /\ multi' = o.C
         /\ RunCallbacks(o.ran)
    /\ res' = Res("M_EraseData", multi[k] # <<>>, NullPtr)
    /\ UNCHANGED <<cell, uniq, nextRes, storageSide>>

NextContainers ==
    \/ \E k \in Keys : \E d \in DeclVals(k) : U_AddData(k, d)
    \/ \E k \in Keys : U_AddDataOwned(k)
    \/ \E k \in Keys : \E d \in DeclVals(k) : U_SetData(k, d)
    \/ \E k \in Keys : U_SetDataOwned(k)
    \/ \E k \in Keys : U_DeleteData(k)
    \/ \E k \in Keys : U_EraseData(k)
    \/ \E k \in Keys : \E d \in DeclVals(k) : M_AddData(k, d)
    \/ \E k \in Keys : M_AddDataOwned(k)
    \/ \E k \in Keys : \E d \in DeclVals(k) : M_SetData(k, d)
    \/ \E k \in Keys : M_DeleteData(k)
    \/ \E k \in Keys : M_EraseData(k)
    \/ \E k \in Keys : M_SetDataOwned(k)
    \/ \E k \in Keys : U_It_DeleteData(k)
    \/ \E k \in Keys, i \in 1..MaxMulti : M_It_DeleteData(k, i)
    \/ U_Clear
    \/ M_Clear

SpecContainers == Init /\ [][NextContainers]_vars

\* ------------------------------------------------- C18
\* C18: SetData(key, value) without a release callback on a key whose cell has a
\* callback attached updates the value in place and keeps that callback; on an
\* absent key it adds the entry; no other entry changes.
C18_SetDataKeepsCallback ==
    \A k \in Keys, d \in TypedVals :
      /\ LET C2 == DataContainer_SetData(uniq, k, d.v, ValTag(d.t), NoFunc) IN
           /\ DOMAIN C2 = (DOMAIN uniq) \cup {k}
           /\ C2[k].Ptr = d.v
           /\ C2[k].DataType = ValTag(d.t)
           /\ C2[k].DeleteFunc = IF k \in DOMAIN uniq THEN uniq[k].DeleteFunc ELSE NoFunc
           /\ \A j \in (DOMAIN uniq) \ {k} : C2[j] = uniq[j]
      /\ \A M2 \in DataMultiHashMap_SetData(multi, k, d.v, ValTag(d.t), NoFunc) :
           /\ Len(M2[k]) = IF multi[k] = <<>> THEN 1 ELSE Len(multi[k])
           /\ \A i \in 1..Len(multi[k]) :
                \/ M2[k][i] = multi[k][i]
                \/ M2[k][i] = [Ptr |-> d.v, DataType |-> ValTag(d.t),
                               DeleteFunc |-> multi[k][i].DeleteFunc]

\* ------------------------------------------------- C19
\* the resources of the cells of a sequence that have a release callback attached
Owned(seq) == {seq[i].Ptr : i \in {j \in 1..Len(seq) : seq[j].DeleteFunc # NoFunc}}

\* C19: erase(key), on the unique-key and on the multi-key container, runs the
\* release callback of every entry it removes, and changes nothing when the key
\* is absent.
C19_EraseRunsEveryCallback ==
    \A k \in Keys :
      /\ \A o \in {DataContainer_DeleteData(uniq, k), DataContainer_EraseData(uniq, k)} :
           IF k \in DOMAIN uniq
           THEN k \notin DOMAIN o.C /\ Released(uniq[k]) \subseteq o.ran
           ELSE o.C = uniq /\ o.ran = {}
      /\ \A o \in DataMultiHashMap_DeleteData(multi, k) \cup
                  DataMultiHashMap_EraseData(multi, k) :
           IF multi[k] # <<>>
           THEN /\ Len(o.C[k]) < Len(multi[k])
                /\ (Owned(multi[k]) \ Owned(o.C[k])) \subseteq o.ran
           ELSE o.C = multi /\ o.ran = {}

\* ------------------------------------------------- C20
\* SetData(f, v) through ref s stopped by an exception of the emplace of the
\* ordering index (part_000:164; the equality index is updated, nothing else is)
\* and then run again from the start: the equality tables of f the second run can
\* leave.  mid is the table the stopped run left, old the oldData the second run
\* reads at part_000:127-129, tab the table the second run leaves.  The payload
\* was not written, so a record that holds f gives both runs the same oldData; an
\* unwritten int oldData is read anew by each run.
RetryAfterHash(s, f, v) ==
    LET r == refs[s].DataRecord
        h == DataStorageHashMapStructure[f].Ptr
        olds == OldDataChoices(recHeap[r].Container, f, FieldType(f))
    IN {[mid |-> SetData_HashStep(hashHeap, h, o1, v, r)[h].tab,
         old |-> o2,
         tab |-> SetData_HashStep(SetData_HashStep(hashHeap, h, o1, v, r),
                                  h, o2, v, r)[h].tab] :
           o1 \in olds, o2 \in olds}

\* SetData(f, v) stopped after part_000:164 and before part_000:167 (both indices
\* updated, payload not written) and then run again from the start: the ordering
\* tables of f the second run can leave
RetryAfterMap(s, f, v) ==
    LET r == refs[s].DataRecord
        h == DataStorageMapStructure[f].Ptr
        olds == OldDataChoices(recHeap[r].Container, f, FieldType(f))
    IN {[mid |-> SetData_MapStep(mapHeap, h, o1, v, r)[h].tab,
         old |-> o2,
         tab |-> SetData_MapStep(SetData_MapStep(mapHeap, h, o1, v, r),
                                 h, o2, v, r)[h].tab] :
           o1 \in olds, o2 \in olds}

C21_TeardownReleasesIndicesThenRecords ==
    (Prototype /\ phase = "dead") =>
       /\ \A h \in 1..nTables : keyHeap[h].alloc = "released"
       /\ \A i \in 1..Len(RecordsList) : recHeap[RecordsList[i]].alloc = "released"

\* ------------------------------------------------- destruction against accessors
\* Threads call GetData and SetData through a ref after reading IsValid(), and
\* findByField on the storage, while the owner of the storage destroys it.  The
\* owner runs ~DataStorage inside one exclusive section; a calling thread either
\* takes the lock for its whole call (shared for GetData and findByField,
\* exclusive for SetData) or takes no lock at all.
Owner == NumThreads + 1
\* the threads that call while the owner destroys the storage
Callers == Threads

HoldsLock(t) == t \in lock.readers \/ lock.writer = t

\* the lock as thread t leaves it at the end of its call
Unlocked(t) == [writer |-> IF lock.writer = t THEN 0 ELSE lock.writer,
                readers |-> lock.readers \ {t}]

\* thread t enters GetData(f, out) through ref s, inside a shared section when
\* the caller takes the lock and with no lock held otherwise
Call_EnterGet(t, s, f, locked) ==
    /\ fault = "none"
    /\ thr[t].pc = "idle"
    /\ refs[s].DataRecord # NullPtr
    /\ Declared(f)
    /\ IF locked THEN AcquireShared(t) ELSE lock' = lock
    /\ thr' = [thr EXCEPT ![t] = [pc |-> "in_get", s |-> s, key |-> f, v |-> 0, old |-> 0]]
    /\ UNCHANGED <<storeVars, refs, phase, fault, res, cellVars, generation, proto>>

\* thread t enters SetData(f, v) through ref s, inside an exclusive section when
\* the caller takes the lock and with no lock held otherwise
Call_EnterSet(t, s, f, v, locked) ==
    /\ fault = "none"
    /\ thr[t].pc = "idle"
    /\ refs[s].DataRecord # NullPtr
    /\ Declared(f)
    /\ IF locked THEN AcquireExclusive(t) ELSE lock' = lock
    /\ thr' = [thr EXCEPT ![t] = [pc |-> "in_set", s |-> s, key |-> f, v |-> v, old |-> 0]]
    /\ UNCHANGED <<storeVars, refs, phase, fault, res, cellVars, generation, proto>>

\* IsValid() is read: true lets the call go on, false ends it with false
Call_IsValid(t) ==
    /\ fault = "none"
    /\ thr[t].pc \in {"in_get", "in_set"}
    /\ IF IsValidResult(thr[t].s)
       THEN /\ thr' = [thr EXCEPT ![t].pc = IF @ = "in_get" THEN "ok_get" ELSE "ok_set"]
            /\ UNCHANGED <<res, lock>>
       ELSE /\ thr' = [thr EXCEPT ![t] = IdleThread]
            /\ res' = Res("IsValid", FALSE, NullPtr)
            /\ lock' = Unlocked(t)
    /\ UNCHANGED <<storeVars, refs, phase, fault, cellVars, generation, proto>>

\* the record (and, for SetData, the index tables) the call of thread t touches
\* is storage that has been released
TouchesReleased(t) ==
    LET r == refs[thr[t].s].DataRecord
        f == thr[t].key
    IN \/ recHeap[r].alloc # "live"
       \/ /\ thr[t].pc = "ok_set"
          /\ \/ hashHeap[DataStorageHashMapStructure[f].Ptr].alloc # "live"
             \/ mapHeap[DataStorageMapStructure[f].Ptr].alloc # "live"

\* DataStorageRecordRef::GetData, part_000:191-195, then the end of the call
Call_GetData(t) ==
    /\ fault = "none"
    /\ thr[t].pc = "ok_get"
    /\ \E o \in RefGetDataOutcomes(thr[t].s, thr[t].key, FieldType(thr[t].key), NullPtr) :
         /\ fault' = o.fault
         /\ res' = Res("GetData", o.ret, o.out)
    /\ lock' = Unlocked(t)
    /\ thr' = [thr EXCEPT ![t] = IdleThread]
    /\ UNCHANGED <<storeVars, refs, phase, cellVars, generation, proto>>

\* DataStorageRecordRef::SetData, part_000:110-169, then the end of the call
Call_SetData(t) ==
    /\ fault = "none"
    /\ thr[t].pc = "ok_set"
    /\ IF TouchesReleased(t)
       THEN /\ fault' = "use_after_free"
            /\ res' \in {Res("SetData", b, NullPtr) : b \in BOOLEAN}
            /\ UNCHANGED <<hashHeap, mapHeap, recHeap>>
       ELSE \E o \in RefSetDataOutcomes(thr[t].s, thr[t].key,
                                        Typed(thr[t].key, thr[t].v)) :
              /\ hashHeap' = o.hash
              /\ mapHeap' = o.map
              /\ recHeap' = o.rec
              /\ fault' = o.fault
              /\ res' = Res("SetData", o.ret, NullPtr)
    /\ lock' = Unlocked(t)
    /\ thr' = [thr EXCEPT ![t] = IdleThread]
    /\ UNCHANGED <<RecordTemplate, DataStorageHashMapStructure, DataStorageMapStructure,
                   DataStorageRecordFillers, nTables, RecordsList, validFlag, refs,
                   phase, cellVars, generation, proto>>

\* thread t enters findByField(f, v, out), inside a shared section when the
\* caller takes the lock and with no lock held otherwise; findByField is a
\* member of the storage and is not called once ~DataStorage has returned
Call_EnterFind(t, f, v, locked) ==
    /\ fault = "none"
    /\ phase # "dead"
    /\ thr[t].pc = "idle"
    /\ Declared(f)
    /\ IF locked THEN AcquireShared(t) ELSE lock' = lock
    /\ thr' = [thr EXCEPT ![t] = [pc |-> "in_find", s |-> 0, key |-> f, v |-> v, old |-> 0]]
    /\ UNCHANGED <<storeVars, refs, phase, fault, res, cellVars, generation, proto>>

\* findByField looks the value up in the equality table of the field, then the
\* call ends; a table that was released meanwhile is read after its release
Call_findByField(t) ==
    /\ fault = "none"
    /\ thr[t].pc = "in_find"
    /\ IF hashHeap[DataStorageHashMapStructure[thr[t].key].Ptr].alloc # "live"
       THEN /\ fault' = "use_after_free"
            /\ res' \in {Res("findByField", b, NullPtr) : b \in BOOLEAN}
       ELSE \E o \in findByFieldOutcomes(thr[t].key, Typed(thr[t].key, thr[t].v)) :
              /\ fault' = o.fault
              /\ res' = Res("findByField", o.ret, NullPtr)
    /\ lock' = Unlocked(t)
    /\ thr' = [thr EXCEPT ![t] = IdleThread]
    /\ UNCHANGED <<storeVars, refs, phase, cellVars, generation, proto>>

\* the owner enters its exclusive section and ~DataStorage starts
Dtor_Lock ==
    /\ Running
    /\ AcquireExclusive(Owner)
    /\ phase' = "tearing"
    /\ res' = Res("teardown", TRUE, NullPtr)
    /\ UNCHANGED <<storeVars, refs, fault, thr, cellVars, generation, proto>>

\* one step of ~DataStorage inside the exclusive section
Dtor_Step ==
    /\ lock.writer = Owner
    /\ \/ \E k \in Keys : TeardownHashIndex(k)
       \/ \E k \in Keys : TeardownMapIndex(k)
       \/ RecordDtor_ClearFlag
       \/ RecordDtor_Release

\* ~DataStorage returns and the exclusive section ends
Dtor_Unlock ==
    /\ lock.writer = Owner
    /\ phase = "tearing"
    /\ IndicesReleased
    /\ NextToDelete = NullPtr
    /\ phase' = "dead"
    /\ lock' = [lock EXCEPT !.writer = 0]
    /\ UNCHANGED <<storeVars, refs, fault, res, thr, cellVars, generation, proto>>

\* the fields of the storage that is destroyed: the race between a call and
\* ~DataStorage is the same for every field, so the storage has the one field
\* "id", declared once or several times
DestroyKeys == {"id"}

NextDestroy ==
    \/ \E k \in DestroyKeys : \E d \in Declarable(k) : L_declareField(k, d)
    \/ \E s \in RefIds : L_createRecord(s)
    \/ \E t \in Callers, s \in RefIds, f \in Keys, locked \in BOOLEAN :
         Call_EnterGet(t, s, f, locked)
    \/ \E t \in Callers, s \in RefIds, f \in Keys, v \in Vals, locked \in BOOLEAN :
         Call_EnterSet(t, s, f, v, locked)
    \/ \E t \in Callers : Call_IsValid(t)
    \/ \E t \in Callers : Call_GetData(t)
    \/ \E t \in Callers : Call_SetData(t)
    \/ \E t \in Callers, f \in Keys, v \in Vals, locked \in BOOLEAN :
         Call_EnterFind(t, f, v, locked)
    \/ \E t \in Callers : Call_findByField(t)
    \/ Dtor_Lock
    \/ Dtor_Step
    \/ Dtor_Unlock

SpecDestroy == InitLibrary /\ [][NextDestroy]_vars

\* ------------------------------------------------- C22
\* C22: a GetData or SetData that holds the lock and has read its validity flag
\* as true finds the record live, flag still set and teardown not begun, and
\* touches no released storage; a findByField that holds the lock finds teardown
\* not begun and the table it reads live; none of the three, run under the lock,
\* ends in a fault.  A call that took no lock can stand between its flag read and
\* its access while the record is released (C22_Witness).
C22_LockedAccessNeverAfterRelease ==
    /\ [](\A t \in Callers :
            (thr[t].pc \in {"ok_get", "ok_set"} /\ HoldsLock(t)) =>
               /\ phase = "live"
               /\ Live(refs[thr[t].s].DataRecord)
               /\ validFlag[refs[thr[t].s].DataRecord]
               /\ ~TouchesReleased(t))
    /\ [](\A t \in Callers :
            (thr[t].pc = "in_find" /\ HoldsLock(t)) =>
               /\ phase = "live"
               /\ hashHeap[DataStorageHashMapStructure[thr[t].key].Ptr].alloc = "live")
    /\ [][\A t \in Callers :
            (HoldsLock(t) /\ (Call_GetData(t) \/ Call_SetData(t) \/ Call_findByField(t))) =>
               fault' = "none"]_vars

\* the owner is inside its exclusive section and has released a record and the
\* index tables; a thread that took no lock read the flag of that record as true
\* before and is about to access it, and another thread that took no lock is
\* about to look a value up in a released table
C22_Witness ==
    /\ lock.writer = Owner
    /\ \E t \in Callers :
         /\ thr[t].pc \in {"ok_get", "ok_set"}
         /\ ~HoldsLock(t)
         /\ recHeap[refs[thr[t].s].DataRecord].alloc = "released"
    /\ \E t \in Callers :
         /\ thr[t].pc = "in_find"
         /\ ~HoldsLock(t)
         /\ hashHeap[DataStorageHashMapStructure[thr[t].key].Ptr].alloc = "released"

\* ------------------------------------------------- C23
\* the cell declareField(f, d) puts into the schema
SchemaCell(d) == [Ptr |-> d.v, DataType |-> ValTag(d.t), DeleteFunc |-> NoFunc]

\* record r is, after the step, a copy of the schema as it was before the step,
\* and the seeding rule of every field uses the schema's default
StartsAtDefaults(r) ==
    /\ DOMAIN recHeap'[r].Container = DOMAIN RecordTemplate
    /\ \A f \in DOMAIN RecordTemplate :
         /\ recHeap'[r].Container[f].Ptr = RecordTemplate[f].Ptr
         /\ recHeap'[r].Container[f].DataType = RecordTemplate[f].DataType
         /\ DataStorageRecordFillers[f].def = RecordTemplate[f].Ptr

\* C23: the first declareField of a name puts its default and type into the
\* schema and into the seeding rule; from then on no step changes them, and a
\* step that ends a createRecord, findByField or RecordRef.SetData call (the
\* call res' reports) changes nothing of the schema at all; every createRecord
\* starts the new record at exactly the schema's defaults, whatever earlier
\* records have been written to.
C23_SchemaChangedOnlyByDeclare ==
    /\ [][\A k \in Keys : \A d \in DeclVals(k) :
            /\ (AddParam(k, d) /\ KeyUndeclared(k)) =>
                  /\ RecordTemplate'[k] = SchemaCell(d)
                  /\ DataStorageRecordFillers'[k].def = d.v
            /\ (declareField(k, d) /\ Undeclared(k)) =>
                  /\ RecordTemplate'[k] = SchemaCell(d)
                  /\ DataStorageRecordFillers'[k].def = d.v]_vars
    /\ [][\A f \in DOMAIN RecordTemplate :
            /\ f \in DOMAIN RecordTemplate'
            /\ RecordTemplate'[f] = RecordTemplate[f]
            /\ DataStorageRecordFillers'[f] = DataStorageRecordFillers[f]]_vars
    /\ [][res'.op \in {"createRecord", "findByField", "SetData"} =>
             /\ RecordTemplate' = RecordTemplate
             /\ DataStorageRecordFillers' = DataStorageRecordFillers]_vars
    /\ [][/\ \A s \in DsrIds :
               CreateNewRecord(s) => StartsAtDefaults(dsr'[s].Data)
          /\ \A s \in RefIds :
               createRecord(s) => StartsAtDefaults(refs'[s].DataRecord)]_vars

\* a second record has just been created at the defaults of both fields after
\* the first record was written off the default of each of them
C23_Witness ==
    /\ res.op = "createRecord"
    /\ Len(RecordsList) = 2
    /\ \A f \in Keys :
         /\ Declared(f) /\ Holds(1, f) /\ Holds(2, f)
         /\ ValueOf(1, f) # RecordTemplate[f].Ptr
         /\ ValueOf(2, f) = RecordTemplate[f].Ptr

\* ------------------------------------------------- C24
\* C24: between complete operations the equality index and the ordering index of
\* every declared field hold the same multiset of (value, record) entries, and
\* every SetData that returns true leaves them so, also when the record holds no
\* value for the field (no entry of the record is found under the value read
\* into oldData, whichever bucket that value selects).
C24_IndicesHoldSameEntries ==
    phase = "live" =>
      /\ \A f \in Keys : Declared(f) => HashTableOf(f) = MapTableOf(f)
      /\ \A s \in RefIds, f \in Keys, d \in TypedVals :
           (ValidRef(s) /\ Declared(f)) =>
             \A o \in RefSetDataOutcomes(s, f, d) :
               (o.ret /\ o.fault = "none") =>
                  /\ o.hash[DataStorageHashMapStructure[f].Ptr].tab =
                        o.map[DataStorageMapStructure[f].Ptr].tab
                  /\ o.hash[DataStorageHashMapStructure[f].Ptr].tab[<<d.v, refs[s].DataRecord>>] >= 1

\* a SetData has returned true while a valid ref targets a record that holds no
\* value for a declared field whose indices hold an entry of another record: a
\* SetData of that field through the ref finds no old entry
C24_Witness ==
    /\ phase = "live"
    /\ res.op = "SetData"
    /\ res.ret
    /\ fault = "none"
    /\ \E s \in RefIds, f \in Keys, q \in RecIds :
         /\ ValidRef(s) /\ Declared(f)
         /\ ~Holds(refs[s].DataRecord, f)
         /\ EntriesOf(HashTableOf(f), refs[s].DataRecord) = 0
         /\ Live(q) /\ Holds(q, f)
         /\ HashTableOf(f)[<<ValueOf(q, f), q>>] = 1
         /\ MapTableOf(f)[<<ValueOf(q, f), q>>] = 1

\* ------------------------------------------------- C25
\* C25: declareField of a name that is already declared, with any default of any
\* type, leaves the schema cell of the field, the cells that hold its tables
\* and its seeding rule as the first declareField made them; the step changes no
\* record and no entry of the tables of any declared field, and every findByField
\* has the outcomes it had before the call; for DataStorage::AddParam on
\* KeysMaps and for declareField on the two index structures.
C25_RedeclareKeepsFirst ==
    /\ [](\A f \in Keys, d \in TypedVals, h \in Handles :
            /\ KeyDeclared(f) =>
                  /\ DataContainer_AddData(RecordTemplate, f, d.v, ValTag(d.t), NoFunc)
                        = RecordTemplate
                  /\ DataContainer_AddData(KeysMaps, f, h, KeyTag(d.t), DeleteTable)
                        = KeysMaps
            /\ Declared(f) =>
                  /\ DataContainer_AddData(RecordTemplate, f, d.v, ValTag(d.t), NoFunc)
                        = RecordTemplate
                  /\ DataContainer_AddData(DataStorageHashMapStructure, f, h,
                                           HashTag(d.t), DeleteTable)
                        = DataStorageHashMapStructure
                  /\ DataContainer_AddData(DataStorageMapStructure, f, h,
                                           MapTag(d.t), DeleteTable)
                        = DataStorageMapStructure)
    /\ [][\A k \in Keys : \A d \in TypedVals :
            (KeyDeclared(k) /\ AddParam(k, d)) =>
               /\ RecordTemplate' = RecordTemplate
               /\ KeysMaps' = KeysMaps
               /\ DataStorageRecordFillers' = DataStorageRecordFillers
               /\ RecordsList' = RecordsList
               /\ recHeap' = recHeap
               /\ \A f \in Keys : KeyDeclared(f) => KeyTableOf(f)' = KeyTableOf(f)
               /\ \A f \in Keys, pv \in TypedVals :
                    GetRecordOutcomes(f, pv)' = GetRecordOutcomes(f, pv)]_vars
    /\ [][\A k \in Keys : \A d \in TypedVals :
            (Declared(k) /\ declareField(k, d)) =>
               /\ RecordTemplate' = RecordTemplate
               /\ DataStorageHashMapStructure' = DataStorageHashMapStructure
               /\ DataStorageMapStructure' = DataStorageMapStructure
               /\ DataStorageRecordFillers' = DataStorageRecordFillers
               /\ RecordsList' = RecordsList
               /\ recHeap' = recHeap
               /\ \A f \in Keys :
                    Declared(f) =>
                       /\ HashTableOf(f)' = HashTableOf(f)
                       /\ MapTableOf(f)' = MapTableOf(f)
               /\ \A f \in Keys, pv \in TypedVals :
                    findByFieldOutcomes(f, pv)' = findByFieldOutcomes(f, pv)]_vars

\* the only declared field of the prototype storage has just been declared a
\* second time, with a default of its first type or of another type (two tables
\* were allocated for one name), while a live record is indexed under a value off
\* the default of that field
C25_Witness ==
    /\ phase = "live"
    /\ fault = "none"
    /\ res.op = "declareField"
    /\ nTables = 2
    /\ Cardinality(DOMAIN RecordTemplate) = 1
    /\ \E f \in Keys, r \in RecIds :
         /\ KeyDeclared(f) /\ Live(r) /\ Holds(r, f)
         /\ ValueOf(r, f) # RecordTemplate[f].Ptr
         /\ KeyTableOf(f)[ValueOf(r, f)] = r
         /\ KeysMaps[f].Ptr = 1

\* ------------------------------------------------- C26
\* C26: in every reachable state every entry of every index table points at a
\* record whose storage is live (the tables are deleted before the first record
\* is), so every findByField that returns true binds the ref to a live record;
\* in the library storage the validity flag of that record is set and IsValid()
\* reads true.
C26_IndexEntriesPointAtLiveRecords ==
    /\ \A h \in Handles, v \in Vals :
         keyHeap[h].tab[v] # NullPtr => Live(keyHeap[h].tab[v])
    /\ (Prototype /\ phase = "live" /\ fault = "none") =>
         \A f \in Keys, pv \in TypedVals :
           \A o \in GetRecordOutcomes(f, pv) :
             (o.ret /\ o.fault = "none") => (o.rec # NullPtr /\ Live(o.rec))
    /\ \A h \in Handles, e \in Entries :
         (hashHeap[h].tab[e] > 0 \/ mapHeap[h].tab[e] > 0) =>
            /\ Live(e[2])
            /\ validFlag[e[2]]
    /\ (Library /\ phase = "live") =>
         \A f \in Keys, pv \in TypedVals :
           \A o \in findByFieldOutcomes(f, pv) :
             (o.ret /\ o.fault = "none") =>
                /\ o.rec # NullPtr
                /\ Live(o.rec)
                /\ validFlag[o.rec]

\* a findByField has returned true and bound a ref to one of two live records
\* that are both indexed, one of them under a value off the default
C26_Witness ==
    /\ phase = "live"
    /\ res.op = "findByField"
    /\ res.ret
    /\ fault = "none"
    /\ \E s \in RefIds : ValidRef(s) /\ IsValidResult(s)
    /\ \E f \in Keys :
         /\ Declared(f)
         /\ \A r \in {1, 2} : Live(r) /\ EntriesOf(HashTableOf(f), r) = 1
         /\ \E r \in {1, 2} : ValueOf(r, f) # RecordTemplate[f].Ptr

====
